---- MODULE Spec2Model ----
(***************************************************************************)
(* Milliman hybrid FastMCP server (src/invoke_router.py), the FastMCP      *)
(* tool server (src/milliman_mcp_server.py) and the tool of src/tool.py:   *)
(* the request transformer and the upstream caller; and call_tool of the   *)
(* client of src/app.py.                                                   *)
(*                                                                         *)
(* Every inbound request is a slot r of Reqs.  A handler runs until its    *)
(* next await; the answer of an upstream (token endpoint, MCID endpoint,   *)
(* medical endpoint) is an input drawn from the small sets below.          *)
(*                                                                         *)
(* Python values: a dict is a record (a function on its keys), so          *)
(* DOMAIN e is the key set of an envelope e; None is the string "None";    *)
(* the header value f'Bearer {t}' is the word list <<"Bearer", t>> and     *)
(* f'{t}' is <<t>>.  A JSON object coming from the token endpoint is       *)
(* modelled by its access_token entry ("None" when the key is absent).     *)
(* Upstream response headers are not modelled.  A str that comes from a    *)
(* request body is the sequence of its characters; a str literal of the    *)
(* code is written as a string.                                            *)
(***************************************************************************)
EXTENDS Integers, Sequences, FiniteSets, TLC

\* ------------------------------------------------------------------ bounds

\* Number of distinct token strings the token endpoint may hand out.
MaxToken == 2

\* An access token is an opaque string, of any length.
TokenStr == <<"tok1", "tok2-0123456789", "tok3", "tok4">>
Tokens == {TokenStr[n] : n \in 1..MaxToken}

\* Inbound requests: Reqs may be in flight at once; Solo is one request alone.
Reqs == {"r1", "r2"}
Solo == {"r1"}

\* Python None where a string is expected, and where a dict is expected.
None == "None"
NoneDict == [none |-> TRUE]

\* --------------------------------------------------- upstream answers

TokenStatuses == {200, 201, 401}
McidStatuses == {200, 400}
MedicalStatuses == {200, 403, 500}

\* The body of an upstream answer: a JSON document, no content, text that is no
\* JSON (response.json() raises JSONDecodeError), or content on which
\* response.json() raises another exception (bytes that are no UTF-8 under
\* httpx, a document nested too deeply to parse).
BodyKinds == {"json", "empty", "text", "unparsable"}

\* A transport failure (connection error, timeout): the call raises.
Raised == [exc |-> TRUE]

TokenResponses ==
    {Raised} \cup
    [exc : {FALSE}, status_code : TokenStatuses, kind : {"json"},
     access_token : Tokens \cup {"", None}] \cup
    [exc : {FALSE}, status_code : TokenStatuses, kind : BodyKinds \ {"json"},
     access_token : {None}]

McidResponses ==
    {Raised} \cup [exc : {FALSE}, status_code : McidStatuses, kind : BodyKinds]

MedicalResponses ==
    {Raised} \cup [exc : {FALSE}, status_code : MedicalStatuses, kind : BodyKinds]

\* ------------------------------------------------------- pure helpers

\* Python truthiness of an access_token value.
Truthy(t) == t \notin {"", None}

\* response.raise_for_status() of requests: raises on a 4xx or 5xx status.
raise_for_status(resp) == resp.status_code >= 400

\* Mutant: the fetch without response.raise_for_status().
get_access_token_sync_unchecked(resp) ==
    IF resp.exc THEN None
    ELSE IF resp.kind # "json" THEN None
    ELSE resp.access_token

get_access_token_sync(resp) ==
    IF resp.exc THEN None
    ELSE IF raise_for_status(resp) THEN None
    ELSE IF resp.kind # "json" THEN None
    ELSE resp.access_token

\* The body handling shared by async_mcid_search and
\* async_submit_medical_request: response.json() if response.content else
\* "No content"; response.text on a JSONDecodeError; "Unable to parse
\* response" on any other exception.
response_body(resp) ==
    CASE resp.kind = "json" -> "json"
      [] resp.kind = "empty" -> "No content"
      [] resp.kind = "text" -> "text"
      [] OTHER -> "Unable to parse response"

\* response.json() if response.content else {}; on any exception the text.
token_response_body(resp) ==
    CASE resp.kind = "json" -> [json |-> TRUE, access_token |-> resp.access_token]
      [] resp.kind = "empty" -> [json |-> TRUE, access_token |-> None]
      [] OTHER -> [json |-> FALSE, access_token |-> None]

\* Mutant: success for every status below 400.
async_get_token_result_any_2xx(resp) ==
    IF resp.exc
    THEN [success |-> FALSE, status_code |-> 500, error |-> "exc"]
    ELSE [success |-> resp.status_code < 400,
          status_code |-> resp.status_code,
          data |-> token_response_body(resp)]

async_get_token_result(resp) ==
    IF resp.exc
    THEN [success |-> FALSE, status_code |-> 500, error |-> "exc"]
    ELSE [success |-> resp.status_code = 200,
          status_code |-> resp.status_code,
          data |-> token_response_body(resp)]

\* Mutant: a 4xx/5xx answer of the MCID endpoint handled as a failure.
async_mcid_search_result_strict(resp, mcid_payload) ==
    IF resp.exc \/ resp.status_code >= 400
    THEN [success |-> FALSE, status_code |-> 500, error |-> "exc",
          request_id |-> mcid_payload.requestID]
    ELSE [success |-> resp.status_code = 200,
          status_code |-> resp.status_code,
          data |-> response_body(resp),
          request_id |-> mcid_payload.requestID]

\* async_mcid_search once its POST of mcid_payload was answered or raised.
async_mcid_search_result(resp, mcid_payload) ==
    IF resp.exc
    THEN [success |-> FALSE, status_code |-> 500, error |-> "exc",
          request_id |-> mcid_payload.requestID]
    ELSE [success |-> resp.status_code = 200,
          status_code |-> resp.status_code,
          data |-> response_body(resp),
          request_id |-> mcid_payload.requestID]

JsonHeaders ==
    ("Content-Type" :> <<"application/json">>) @@ ("Accept" :> <<"application/json">>)

VersionHeaders ==
    ("X-API-Version" :> <<"1.0">>) @@ ("User-Agent" :> <<"Milliman-Client/1.0">>)

AjaxHeaders ==
    ("X-Requested-With" :> <<"XMLHttpRequest">>) @@ ("Cache-Control" :> <<"no-cache">>)

auth_attempts(access_token) ==
    << ("Authorization" :> <<"Bearer", access_token>>) @@ JsonHeaders @@ VersionHeaders,
       ("Authorization" :> <<access_token>>) @@ JsonHeaders @@ VersionHeaders,
       ("Authorization" :> <<"Token", access_token>>) @@ JsonHeaders @@ VersionHeaders,
       ("Authorization" :> <<"Bearer", access_token>>) @@ JsonHeaders @@ AjaxHeaders >>

\* 'auth' in k.lower(), over the header names in use.
IsAuthKey(k) == k = "Authorization"

request_headers(headers) ==
    [k \in DOMAIN headers |-> IF IsAuthKey(k) THEN <<"***">> ELSE headers[k]]

\* headers['Authorization'].split()[0] if ' ' in it else 'Raw'
auth_format(headers) ==
    IF Len(headers["Authorization"]) > 1 THEN headers["Authorization"][1] ELSE "Raw"

token_not_found ==
    [success |-> FALSE, status_code |-> 500, error |-> "Access token not found"]

\* Mutant: auth_attempt counted from 0, as enumerate does.
medical_result_zero_based(i, headers, resp, medical_payload) ==
    [success |-> resp.status_code = 200,
     status_code |-> resp.status_code,
     data |-> response_body(resp),
     request_id |-> medical_payload.requestID,
     auth_attempt |-> i - 1,
     auth_format |-> auth_format(headers),
     request_headers |-> request_headers(headers)]

medical_result(i, headers, resp, medical_payload) ==
    [success |-> resp.status_code = 200,
     status_code |-> resp.status_code,
     data |-> response_body(resp),
     request_id |-> medical_payload.requestID,
     auth_attempt |-> i,
     auth_format |-> auth_format(headers),
     request_headers |-> request_headers(headers)]

medical_error(i, medical_payload) ==
    [success |-> FALSE, status_code |-> 500, error |-> "exc",
     request_id |-> medical_payload.requestID,
     auth_attempt |-> i, all_attempts_failed |-> TRUE]

\* How a piece of code ends: it returns v, raises, or (a loop pass) goes on.
Return(v) == [how |-> "return", value |-> v]
Raise == [how |-> "raise"]
Continue == [how |-> "continue"]

\* Mutant: a 200 before the last candidate does not end the loop.
medical_attempt_no_early_return(i, n, headers, resp, medical_payload) ==
    IF resp.exc
    THEN IF i = n THEN Return(medical_error(i, medical_payload)) ELSE Continue
    ELSE IF i = n
         THEN Return(medical_result(i, headers, resp, medical_payload))
         ELSE Continue

\* Mutant: a refusal of the last candidate reported as a failure of the call.
medical_attempt_last_is_error(i, n, headers, resp, medical_payload) ==
    IF resp.exc
    THEN IF i = n THEN Return(medical_error(i, medical_payload)) ELSE Continue
    ELSE IF resp.status_code = 200
         THEN Return(medical_result(i, headers, resp, medical_payload))
         ELSE IF i = n THEN Return(medical_error(i, medical_payload)) ELSE Continue

\* Mutant: the first transport exception ends the call.
medical_attempt_raise_first(i, n, headers, resp, medical_payload) ==
    IF resp.exc
    THEN Return(medical_error(i, medical_payload))
    ELSE IF resp.status_code = 200
         THEN Return(medical_result(i, headers, resp, medical_payload))
         ELSE IF i = n
              THEN Return(medical_result(i, headers, resp, medical_payload) @@
                          [all_attempts_failed |-> TRUE,
                           final_error |-> [attempts |-> n, last_status |-> resp.status_code]])
              ELSE Continue

\* Mutant: the except clause goes on in every pass, the last one too.
medical_attempt_falls_through(i, n, headers, resp, medical_payload) ==
    IF resp.exc
    THEN Continue
    ELSE IF resp.status_code = 200
         THEN Return(medical_result(i, headers, resp, medical_payload))
         ELSE IF i = n
              THEN Return(medical_result(i, headers, resp, medical_payload) @@
                          [all_attempts_failed |-> TRUE,
                           final_error |-> [attempts |-> n, last_status |-> resp.status_code]])
              ELSE Continue

\* One pass of the loop `for i, headers in enumerate(auth_attempts)`, with i
\* counted from 1 and n = len(auth_attempts).
medical_attempt(i, n, headers, resp, medical_payload) ==
    IF resp.exc
    THEN IF i = n THEN Return(medical_error(i, medical_payload)) ELSE Continue
    ELSE IF resp.status_code = 200
         THEN Return(medical_result(i, headers, resp, medical_payload))
         ELSE IF i = n
              THEN Return(medical_result(i, headers, resp, medical_payload) @@
                          [all_attempts_failed |-> TRUE,
                           final_error |-> [attempts |-> n, last_status |-> resp.status_code]])
              ELSE Continue

\* ------------------------- PersonRequest and the request transformer

\* A Python str is the sequence of its characters; None where a str is
\* expected is the one-element sequence <<None>>, which is no str.
NoneStr == <<None>>

\* str.strip(), applied by pydantic to every str (Config.str_strip_whitespace).
IsSpace(c) == c = " "

RECURSIVE lstrip(_)
lstrip(s) == IF s # <<>> /\ IsSpace(Head(s)) THEN lstrip(Tail(s)) ELSE s

RECURSIVE rstrip(_)
rstrip(s) ==
    IF s # <<>> /\ IsSpace(s[Len(s)]) THEN rstrip(SubSeq(s, 1, Len(s) - 1)) ELSE s

strip(s) == rstrip(lstrip(s))

\* str.upper(), over the characters in use.
UpperOf(c) ==
    CASE c = "m" -> "M"
      [] c = "f" -> "F"
      [] c = "x" -> "X"
      [] OTHER -> c

RECURSIVE upper(_)
upper(s) == IF s = <<>> THEN <<>> ELSE <<UpperOf(Head(s))>> \o upper(Tail(s))

\* s.replace(old, ""), old one character.
RECURSIVE replace(_, _)
replace(s, old) ==
    IF s = <<>> THEN <<>>
    ELSE IF Head(s) = old THEN replace(Tail(s), old)
    ELSE <<Head(s)>> \o replace(Tail(s), old)

\* Mutant: every value is upper-cased.
validate_gender_upper_all(v) == upper(v)

validate_gender(v) ==
    IF upper(v) \notin {<<"M">>, <<"F">>} THEN v ELSE upper(v)

DefaultZip == <<"0", "0", "0", "0", "0">>

\* Mutant: an empty list is left empty.
validate_zip_codes_no_default(v) == v

\* [str(zip_code) for zip_code in v]: str() of a str is that str.
validate_zip_codes(v) ==
    IF v = <<>> THEN <<DefaultZip>> ELSE [j \in 1..Len(v) |-> v[j]]

RECURSIVE strip_each(_)
strip_each(v) == IF v = <<>> THEN <<>> ELSE <<strip(Head(v))>> \o strip_each(Tail(v))

\* PersonRequest(**raw): every str is stripped, then the validators run.
PersonRequest(raw) ==
    [firstName |-> strip(raw.firstName),
     lastName |-> strip(raw.lastName),
     ssn |-> strip(raw.ssn),
     dateOfBirth |-> strip(raw.dateOfBirth),
     gender |-> validate_gender(strip(raw.gender)),
     zipCodes |-> validate_zip_codes(strip_each(raw.zipCodes))]

\* The wall clock counts ticks, TicksPerMs of them to a millisecond;
\* time.time() * 1000 is clock / TicksPerMs and int() drops the fraction.
\* str() of the integer is one-to-one: the identifier is kept as the integer.
TicksPerMs == 2
MsPerSecond == 1000

generate_request_id(now) == now \div TicksPerMs

\* int(time.time())
timestamp(now) == now \div (TicksPerMs * MsPerSecond)

\* Mutant: the body also carries the clock reading it was built at.
transform_to_mcid_format_stamped(person_data, now) ==
    [requestID |-> generate_request_id(now),
     builtAt |-> now,
     processStatus |-> [completed |-> "false", isMemput |-> "false",
                        errorCode |-> None, errorText |-> None],
     consumer |-> << [firstName |-> person_data.firstName,
                      lastName |-> person_data.lastName,
                      middleName |-> NoneStr,
                      sex |-> person_data.gender,
                      dob |-> replace(person_data.dateOfBirth, "-"),
                      addressList |-> << [type |-> "P",
                                          zip |-> IF person_data.zipCodes # <<>>
                                                  THEN person_data.zipCodes[1]
                                                  ELSE NoneStr] >>,
                      id |-> [ssn |-> person_data.ssn]] >>,
     searchSetting |-> [minScore |-> "100", maxResult |-> "1"]]

\* Mutant: the dashes of dateOfBirth are kept.
transform_to_mcid_format_keep_dashes(person_data, now) ==
    [requestID |-> generate_request_id(now),
     processStatus |-> [completed |-> "false", isMemput |-> "false",
                        errorCode |-> None, errorText |-> None],
     consumer |-> << [firstName |-> person_data.firstName,
                      lastName |-> person_data.lastName,
                      middleName |-> NoneStr,
                      sex |-> person_data.gender,
                      dob |-> person_data.dateOfBirth,
                      addressList |-> << [type |-> "P",
                                          zip |-> IF person_data.zipCodes # <<>>
                                                  THEN person_data.zipCodes[1]
                                                  ELSE NoneStr] >>,
                      id |-> [ssn |-> person_data.ssn]] >>,
     searchSetting |-> [minScore |-> "100", maxResult |-> "1"]]

transform_to_mcid_format(person_data, now) ==
    [requestID |-> generate_request_id(now),
     processStatus |-> [completed |-> "false", isMemput |-> "false",
                        errorCode |-> None, errorText |-> None],
     consumer |-> << [firstName |-> person_data.firstName,
                      lastName |-> person_data.lastName,
                      middleName |-> NoneStr,
                      sex |-> person_data.gender,
                      dob |-> replace(person_data.dateOfBirth, "-"),
                      addressList |-> << [type |-> "P",
                                          zip |-> IF person_data.zipCodes # <<>>
                                                  THEN person_data.zipCodes[1]
                                                  ELSE NoneStr] >>,
                      id |-> [ssn |-> person_data.ssn]] >>,
     searchSetting |-> [minScore |-> "100", maxResult |-> "1"]]

\* Mutant: only the first zip code is forwarded.
transform_to_medical_format_first_zip(person_data, now) ==
    [requestID |-> generate_request_id(now),
     firstName |-> person_data.firstName,
     lastName |-> person_data.lastName,
     ssn |-> person_data.ssn,
     dateOfBirth |-> person_data.dateOfBirth,
     gender |-> person_data.gender,
     zipCodes |-> SubSeq(person_data.zipCodes, 1, 1),
     callerId |-> "Milliman-Test16",
     middleName |-> "", addressLine1 |-> "", addressLine2 |-> "",
     city |-> "", state |-> "", country |-> "US",
     phoneNumber |-> "", email |-> ""]

transform_to_medical_format(person_data, now) ==
    [requestID |-> generate_request_id(now),
     firstName |-> person_data.firstName,
     lastName |-> person_data.lastName,
     ssn |-> person_data.ssn,
     dateOfBirth |-> person_data.dateOfBirth,
     gender |-> person_data.gender,
     zipCodes |-> person_data.zipCodes,
     callerId |-> "Milliman-Test16",
     middleName |-> "", addressLine1 |-> "", addressLine2 |-> "",
     city |-> "", state |-> "", country |-> "US",
     phoneNumber |-> "", email |-> ""]

\* Mutant: the date of birth is rewritten in the object,
\* person_data.dateOfBirth = person_data.dateOfBirth.replace("-", "").
transform_to_mcid_format_in_place(person_data, now) ==
    [returned |-> transform_to_mcid_format(person_data, now),
     person_data |-> [person_data EXCEPT !.dateOfBirth = replace(@, "-")]]

\* A call transform_to_mcid_format(person_data): the dict it returns, and
\* the object person_data as the call leaves it for the caller, who holds the
\* same object.  The function reads attributes of person_data and assigns to
\* none; dob_formatted is a new str, replace() leaves dateOfBirth as it is.
transform_to_mcid_format_call(person_data, now) ==
    [returned |-> transform_to_mcid_format(person_data, now),
     person_data |-> person_data]

\* A call transform_to_medical_format(person_data), likewise.  The dict
\* returned holds the list person_data.zipCodes itself, not a copy; nothing
\* is appended to it or removed from it.
transform_to_medical_format_call(person_data, now) ==
    [returned |-> transform_to_medical_format(person_data, now),
     person_data |-> person_data]

\* ------------------------------------------ milliman_mcp_server.py tools

\* resp.raise_for_status(); data = resp.json(); {"access_token": data.get(...)}
\* resp is an httpx.Response: raise_for_status() raises unless the status is
\* a 2xx.
get_token_result(resp) ==
    IF resp.exc THEN Raise
    ELSE IF resp.status_code \notin 200..299 THEN Raise
    ELSE IF resp.kind # "json" THEN Raise
    ELSE Return([access_token |-> resp.access_token])

\* {"status_code": resp.status_code, "body": resp.json()}
mcid_search_result(resp) ==
    IF resp.exc THEN Raise
    ELSE IF resp.kind # "json" THEN Raise
    ELSE Return([status_code |-> resp.status_code, body |-> "json"])

bearer_headers(token) ==
    ("Authorization" :> <<"Bearer", token>>) @@ ("Content-Type" :> <<"application/json">>)

medical_submit_result(resp) ==
    IF resp.exc THEN Raise
    ELSE IF resp.status_code # 200 THEN Raise
    ELSE IF resp.kind # "json" THEN Raise
    ELSE Return([status_code |-> resp.status_code, body |-> "json"])

\* ------------------------------------------------------------- state

VARIABLES
    route,      \* route[r]: the handler serving r, "idle" before r arrives
    tokOp,      \* tokOp[r]: the handler's own token call (async_get_token, get_token)
    mcidOp,     \* mcidOp[r]: the MCID call made for r
    medOp,      \* medOp[r]: the medical submission made for r
    sent,       \* sent[r]: the outbound POSTs issued for r, in issue order
    answer,     \* answer[r]: the latest answer each upstream gave to a call of r
    reply,      \* reply[r]: what the handler returned to the inbound caller
    raw,        \* raw[r]: the person fields of the inbound request body of r
    person,     \* person[r]: the PersonRequest built from raw[r]
    payload,    \* payload[r]: the upstream bodies built for r (mcid, medical)
    clock,      \* the wall clock, in ticks
    client      \* the call of call_tool made by the client of src/app.py

vars == <<route, tokOp, mcidOp, medOp, sent, answer, reply, raw, person, payload, clock,
          client>>

\* What a step of the server that builds no PersonRequest and no body, and
\* reads no clock, leaves alone.
transformer == <<raw, person, payload, clock, client>>

NoResult == [pending |-> TRUE]
NoReply == [pending |-> TRUE]
NoAnswer == [pending |-> TRUE]

IdleOp == [pc |-> "idle", result |-> NoResult]
WaitOp == [pc |-> "wait", result |-> NoResult]
DoneOp(v) == [pc |-> "done", result |-> v]
RaisedOp == [pc |-> "raised", result |-> NoResult]

IdleMedical == [pc |-> "idle", access_token |-> None, i |-> 0, result |-> NoResult]
TokenMedical == [pc |-> "token", access_token |-> None, i |-> 0, result |-> NoResult]
RaisedMedical(token) ==
    [pc |-> "raised", access_token |-> token, i |-> 0, result |-> NoResult]

\* Entries of sent.  A medical POST made with requests.post carries the body
\* json and is answered before the coroutine goes on: ok tells whether the
\* answer was HTTP 200.
TokenPost(by) == [to |-> "token", by |-> by]
McidPost(by) == [to |-> "mcid", by |-> by]
MedicalPost(headers, json, ok) ==
    [to |-> "medical", headers |-> headers, json |-> json, ok |-> ok]
MedicalPostAwaited(headers) == [to |-> "medical", headers |-> headers]

\* call_tool has not been called: nothing contacted, nothing returned.
IdleClient == [pc |-> "idle", tool_name |-> None, contacted |-> <<>>, answers |-> <<>>,
               outcome |-> NoResult]

NoPerson == [absent |-> TRUE]
NoPayload == [absent |-> TRUE]

\* The request bodies of the two inbound requests when the person is not the
\* subject: r1 sends the specification's example, r2 another person.
SampleRaw(r) ==
    IF r = "r1"
    THEN [firstName |-> <<"J">>, lastName |-> <<"D">>, ssn |-> <<"1">>,
          dateOfBirth |-> <<"1", "9", "-", "1", "0">>, gender |-> <<"f">>,
          zipCodes |-> <<>>]
    ELSE [firstName |-> <<"K">>, lastName |-> <<"E">>, ssn |-> <<"2">>,
          dateOfBirth |-> <<"2", "0", "-", "0", "1">>, gender |-> <<"M">>,
          zipCodes |-> << <<"2", "3">>, <<"4", "5">> >>]

\* No request has arrived and no call is in flight.
Idle ==
    /\ route = [r \in Reqs |-> "idle"]
    /\ tokOp = [r \in Reqs |-> IdleOp]
    /\ mcidOp = [r \in Reqs |-> IdleOp]
    /\ medOp = [r \in Reqs |-> IdleMedical]
    /\ sent = [r \in Reqs |-> <<>>]
    /\ answer = [r \in Reqs |-> [top_token |-> NoAnswer, mcid |-> NoAnswer,
                                 token |-> NoAnswer, medical |-> NoAnswer]]
    /\ reply = [r \in Reqs |-> NoReply]
    /\ person = [r \in Reqs |-> NoPerson]
    /\ payload = [r \in Reqs |-> [mcid |-> NoPayload, medical |-> NoPayload]]
    /\ client = IdleClient

Init ==
    /\ Idle
    /\ raw = [r \in Reqs |-> SampleRaw(r)]
    /\ clock = 0

\* ------------------------------------------------ what a handler returns

\* d.get(key, default)
Get(d, key, default) == IF key \in DOMAIN d THEN d[key] ELSE default

\* Mutant: the HTTP status of the reply mirrors the status in the body.
Ok_mirrors_body(body) == [http_status |-> Get(body, "status_code", 200), body |-> body]

\* A handler returns body: FastAPI answers HTTP 200 with it.
Ok(body) == [http_status |-> 200, body |-> body]
HTTPException == [http_status |-> 500, detail |-> "exc"]

\* Mutant: a failed call fails the combined operation.
get_both_return_all_or_nothing(mcid_res, medical_res) ==
    IF mcid_res = NoneDict \/ medical_res = NoneDict
    THEN HTTPException
    ELSE IF ~Get(mcid_res, "success", FALSE) \/ ~Get(medical_res, "success", FALSE)
         THEN HTTPException
         ELSE Ok([success |-> TRUE,
                  mcid_search |-> mcid_res,
                  medical_submit |-> medical_res,
                  timestamp |-> timestamp(clock)])

\* The dict get_both and get_both_http build after asyncio.gather.
\* a.get('success', False) or b.get('success', False): b is evaluated only
\* when a's success is falsy, and None.get(...) raises.
get_both_result(mcid_res, medical_res) ==
    IF mcid_res = NoneDict THEN Raise
    ELSE IF Get(mcid_res, "success", FALSE)
         THEN Return([success |-> TRUE,
                      mcid_search |-> mcid_res,
                      medical_submit |-> medical_res,
                      timestamp |-> timestamp(clock)])
         ELSE IF medical_res = NoneDict THEN Raise
              ELSE Return([success |-> Get(medical_res, "success", FALSE),
                           mcid_search |-> mcid_res,
                           medical_submit |-> medical_res,
                           timestamp |-> timestamp(clock)])

\* get_both_http: its except clause turns a raise into HTTPException(500).
get_both_return(mcid_res, medical_res) ==
    LET out == get_both_result(mcid_res, medical_res)
    IN  IF out.how = "raise" THEN HTTPException ELSE Ok(out.value)

\* The dict test_connection and test_connection_http build; None.get(...)
\* raises.
test_connection_result(token_result, mcid_test, medical_test) ==
    IF NoneDict \in {token_result, mcid_test, medical_test}
    THEN Raise
    ELSE Return([success |-> TRUE,
                 token_api |-> [reachable |-> Get(token_result, "success", FALSE),
                                status |-> Get(token_result, "status_code", "unknown")],
                 mcid_api |-> [reachable |-> Get(mcid_test, "status_code", 0) # 500,
                               status |-> Get(mcid_test, "status_code", "unknown")],
                 medical_api |-> [reachable |-> Get(medical_test, "status_code", 0) # 500,
                                  status |-> Get(medical_test, "status_code", "unknown")],
                 timestamp |-> timestamp(clock)])

\* test_connection_http: its except clause turns a raise into
\* HTTPException(500).
test_connection_return(token_result, mcid_test, medical_test) ==
    LET out == test_connection_result(token_result, mcid_test, medical_test)
    IN  IF out.how = "raise" THEN HTTPException ELSE Ok(out.value)

\* An @mcp.tool() function returns body: it is the result of the tool call.
ToolResult(body) == [tool_result |-> body]

\* The tool get_both: its except clause returns an error dict.
get_both_tool_return(mcid_res, medical_res) ==
    LET out == get_both_result(mcid_res, medical_res)
    IN  IF out.how = "raise"
        THEN ToolResult([success |-> FALSE, error |-> "exc",
                         timestamp |-> timestamp(clock)])
        ELSE ToolResult(out.value)

\* The tool test_connection: its except clause returns an error dict.
test_connection_tool_return(token_result, mcid_test, medical_test) ==
    LET out == test_connection_result(token_result, mcid_test, medical_test)
    IN  IF out.how = "raise"
        THEN ToolResult([success |-> FALSE, error |-> "exc",
                         timestamp |-> timestamp(clock)])
        ELSE ToolResult(out.value)

\* call_all under invoke_tool: an exception of any tool leaves call_all and
\* invoke_tool answers HTTPException(500).
call_all_return(tok, mcid, med) ==
    IF "raised" \in {tok.pc, mcid.pc, med.pc}
    THEN HTTPException
    ELSE IF med.pc = "done"
         THEN Ok([get_token |-> tok.result,
                  mcid_search |-> mcid.result,
                  medical_submit |-> med.result])
         ELSE NoReply

\* How the tool function serving route rt has ended, given the state of its
\* calls: Return(v), Raise, or Continue while it still runs.
tool_outcome(rt, tok, mcid, med) ==
    CASE rt \in {"get_token", "mcp.get_token"} ->
            IF tok.pc = "raised" THEN Raise
            ELSE IF tok.pc = "done" THEN Return(tok.result) ELSE Continue
      [] rt \in {"mcid_search", "mcp.mcid_search"} ->
            IF mcid.pc = "raised" THEN Raise
            ELSE IF mcid.pc = "done" THEN Return(mcid.result) ELSE Continue
      [] rt \in {"medical_submit", "mcp.medical_submit"} ->
            IF med.pc = "raised" THEN Raise
            ELSE IF med.pc = "done" THEN Return(med.result) ELSE Continue
      [] OTHER ->
            IF "raised" \in {tok.pc, mcid.pc, med.pc} THEN Raise
            ELSE IF med.pc = "done"
                 THEN Return([get_token |-> tok.result,
                              mcid_search |-> mcid.result,
                              medical_submit |-> med.result])
                 ELSE Continue

\* invoke_tool: result = await tool.invoke(**payload); return result; an
\* exception becomes HTTPException(500).
invoke_tool_return(out) ==
    CASE out.how = "return" -> Ok(out.value)
      [] out.how = "raise" -> HTTPException
      [] OTHER -> NoReply

\* A tool function called without invoke_tool: its value goes to the caller,
\* and so does its exception.
ToolRaised == [tool_raised |-> TRUE]

tool_call_return(out) ==
    CASE out.how = "return" -> ToolResult(out.value)
      [] out.how = "raise" -> ToolRaised
      [] OTHER -> NoReply

\* Mutant: the result of a call is kept in a module-level variable, so a
\* handler returns the result another request's call left there.
handler_return_shared_result(rt, tok, mcid, med) ==
    LET held_mcid == {mcidOp[q].result : q \in {q \in Reqs : mcidOp[q].pc = "done"}}
        held_med == {medOp[q].result : q \in {q \in Reqs : medOp[q].pc = "done"}}
    IN  CASE rt = "get_auth_token" ->
                IF tok.pc = "done" THEN Ok(tok.result) ELSE NoReply
          [] rt = "search_mcid" ->
                IF mcid.pc = "done"
                THEN Ok(IF held_mcid = {} THEN mcid.result ELSE CHOOSE v \in held_mcid : TRUE)
                ELSE NoReply
          [] rt = "submit_medical" ->
                IF med.pc = "done"
                THEN Ok(IF held_med = {} THEN med.result ELSE CHOOSE v \in held_med : TRUE)
                ELSE NoReply
          [] OTHER -> NoReply

\* The handler of route rt, given the state of its calls: its return value once
\* every call it awaits is done, NoReply before.
handler_return(rt, tok, mcid, med) ==
    CASE rt = "get_auth_token" ->
            IF tok.pc = "done" THEN Ok(tok.result) ELSE NoReply
      [] rt = "search_mcid" ->
            IF mcid.pc = "done" THEN Ok(mcid.result) ELSE NoReply
      [] rt = "submit_medical" ->
            IF med.pc = "done" THEN Ok(med.result) ELSE NoReply
      [] rt = "get_both" ->
            IF mcid.pc = "done" /\ med.pc = "done"
            THEN get_both_return(mcid.result, med.result) ELSE NoReply
      [] rt = "test_connection" ->
            IF med.pc = "done"
            THEN test_connection_return(tok.result, mcid.result, med.result)
            ELSE NoReply
      [] rt = "call_all" -> call_all_return(tok, mcid, med)
      [] rt \in {"get_token", "mcid_search", "medical_submit"} ->
            invoke_tool_return(tool_outcome(rt, tok, mcid, med))
      [] rt \in {"mcp.get_token", "mcp.mcid_search", "mcp.medical_submit",
                 "mcp.call_all"} ->
            tool_call_return(tool_outcome(rt, tok, mcid, med))
      [] rt = "mcp.get_auth_token" ->
            IF tok.pc = "done" THEN ToolResult(tok.result) ELSE NoReply
      [] rt = "mcp.search_mcid" ->
            IF mcid.pc = "done" THEN ToolResult(mcid.result) ELSE NoReply
      [] rt = "mcp.submit_medical" ->
            IF med.pc = "done" THEN ToolResult(med.result) ELSE NoReply
      [] rt = "mcp.get_both" ->
            IF mcid.pc = "done" /\ med.pc = "done"
            THEN get_both_tool_return(mcid.result, med.result) ELSE NoReply
      [] rt = "mcp.test_connection" ->
            IF med.pc = "done"
            THEN test_connection_tool_return(tok.result, mcid.result, med.result)
            ELSE NoReply
      [] OTHER -> NoReply

\* A call of r has ended: the handler of r goes on, and returns once every
\* call it awaits is done.  The reply of no other request is touched.
Returned(r) ==
    reply' = [reply EXCEPT ![r] = handler_return(route[r], tokOp'[r], mcidOp'[r], medOp'[r])]

RouterRoutes ==
    {"get_auth_token", "search_mcid", "submit_medical", "get_both", "test_connection"}

\* The @mcp.tool() function f serves the route "mcp.f"; these five await the
\* same coroutines as the HTTP handlers of RouterRoutes.
McpRoutes ==
    {"mcp.get_auth_token", "mcp.search_mcid", "mcp.submit_medical", "mcp.get_both",
     "mcp.test_connection"}

ToolRoutes ==
    McpRoutes \cup {"mcp.submit_medical_alt", "mcp.debug_transforms", "mcp.debug_auth"}

\* The callers of async_get_token, async_mcid_search and
\* async_submit_medical_request that return the result as it is or combined.
Callers == RouterRoutes \cup McpRoutes

TestConnectionRoutes == {"test_connection", "mcp.test_connection"}
AltRoutes == {"submit_medical_alt", "mcp.submit_medical_alt"}
DebugTransformsRoutes == {"debug_transforms", "mcp.debug_transforms"}
DebugAuthRoutes == {"debug_auth", "mcp.debug_auth"}

\* What the handler or tool serving route rt gives its caller when it returns
\* body.
Reply(rt, body) == IF rt \in ToolRoutes THEN ToolResult(body) ELSE Ok(body)

\* requests.post inside the coroutine does not yield: while the candidate loop
\* of r runs, no other coroutine of r is resumed.  (Two requests may be served
\* by different event loops, the HTTP thread's and the MCP main thread's, so
\* nothing is assumed between requests.)
LoopFree(r) == medOp[r].pc # "loop"

\* -------------------------------------------- invoke_router.py handlers

get_auth_token_http(r) ==
    /\ route[r] = "idle"
    /\ route' = [route EXCEPT ![r] = "get_auth_token"]
    /\ tokOp' = [tokOp EXCEPT ![r] = WaitOp]
    /\ sent' = [sent EXCEPT ![r] = Append(@, TokenPost("async_get_token"))]
    /\ UNCHANGED <<mcidOp, medOp, answer, reply>>
    /\ UNCHANGED transformer

\* FastAPI builds person_data from the request body; async_mcid_search builds
\* its body and issues the POST.
search_mcid_http(r) ==
    /\ route[r] = "idle"
    /\ route' = [route EXCEPT ![r] = "search_mcid"]
    /\ person' = [person EXCEPT ![r] = PersonRequest(raw[r])]
    /\ payload' = [payload EXCEPT ![r].mcid = transform_to_mcid_format(person'[r], clock)]
    /\ mcidOp' = [mcidOp EXCEPT ![r] = WaitOp]
    /\ sent' = [sent EXCEPT ![r] = Append(@, McidPost("async_mcid_search"))]
    /\ UNCHANGED <<tokOp, medOp, answer, reply, raw, client, clock>>

submit_medical_http(r) ==
    /\ route[r] = "idle"
    /\ route' = [route EXCEPT ![r] = "submit_medical"]
    /\ person' = [person EXCEPT ![r] = PersonRequest(raw[r])]
    /\ medOp' = [medOp EXCEPT ![r] = TokenMedical]
    /\ sent' = [sent EXCEPT ![r] = Append(@, TokenPost("get_access_token_sync"))]
    /\ UNCHANGED <<tokOp, mcidOp, answer, reply, raw, client, payload, clock>>

\* Mutant: the medical coroutine is awaited after the MCID coroutine, and is
\* not started with it.
get_both_http_sequential(r) ==
    /\ route[r] = "idle"
    /\ route' = [route EXCEPT ![r] = "get_both"]
    /\ person' = [person EXCEPT ![r] = PersonRequest(raw[r])]
    /\ payload' = [payload EXCEPT ![r].mcid = transform_to_mcid_format(person'[r], clock)]
    /\ mcidOp' = [mcidOp EXCEPT ![r] = WaitOp]
    /\ sent' = [sent EXCEPT ![r] = Append(@, McidPost("async_mcid_search"))]
    /\ UNCHANGED <<tokOp, medOp, answer, reply, raw, client, clock>>

\* asyncio.gather starts the MCID coroutine, then the medical coroutine.
get_both_http(r) ==
    /\ route[r] = "idle"
    /\ route' = [route EXCEPT ![r] = "get_both"]
    /\ person' = [person EXCEPT ![r] = PersonRequest(raw[r])]
    /\ payload' = [payload EXCEPT ![r].mcid = transform_to_mcid_format(person'[r], clock)]
    /\ mcidOp' = [mcidOp EXCEPT ![r] = WaitOp]
    /\ medOp' = [medOp EXCEPT ![r] = TokenMedical]
    /\ sent' = [sent EXCEPT ![r] =
                  @ \o <<McidPost("async_mcid_search"),
                         TokenPost("get_access_token_sync")>>]
    /\ UNCHANGED <<tokOp, answer, reply, raw, client, clock>>

test_connection_http(r) ==
    /\ route[r] = "idle"
    /\ route' = [route EXCEPT ![r] = "test_connection"]
    /\ person' = [person EXCEPT ![r] = PersonRequest(raw[r])]
    /\ tokOp' = [tokOp EXCEPT ![r] = WaitOp]
    /\ sent' = [sent EXCEPT ![r] = Append(@, TokenPost("async_get_token"))]
    /\ UNCHANGED <<mcidOp, medOp, answer, reply, raw, client, payload, clock>>

\* The token endpoint answers async_get_token.  test_connection_http goes on
\* to async_mcid_search, which issues its POST.
async_get_token(r) ==
    \E resp \in TokenResponses :
        /\ route[r] \in Callers
        /\ tokOp[r].pc = "wait"
        /\ LoopFree(r)
        /\ tokOp' = [tokOp EXCEPT ![r] = DoneOp(async_get_token_result(resp))]
        /\ answer' = [answer EXCEPT ![r].top_token = resp]
        /\ IF route[r] \in TestConnectionRoutes
           THEN /\ mcidOp' = [mcidOp EXCEPT ![r] = WaitOp]
                /\ payload' = [payload EXCEPT
                                 ![r].mcid = transform_to_mcid_format(person[r], clock)]
                /\ sent' = [sent EXCEPT ![r] = Append(@, McidPost("async_mcid_search"))]
           ELSE UNCHANGED <<mcidOp, payload, sent>>
        /\ UNCHANGED <<route, medOp, raw, client, person, clock>>
        /\ Returned(r)

\* The MCID endpoint answers async_mcid_search.  test_connection_http goes on
\* to async_submit_medical_request, which starts its token fetch.
async_mcid_search(r) ==
    \E resp \in McidResponses :
        /\ route[r] \in Callers
        /\ mcidOp[r].pc = "wait"
        /\ LoopFree(r)
        /\ mcidOp' = [mcidOp EXCEPT
                        ![r] = DoneOp(async_mcid_search_result(resp, payload[r].mcid))]
        /\ answer' = [answer EXCEPT ![r].mcid = resp]
        /\ IF route[r] \in TestConnectionRoutes
           THEN /\ medOp' = [medOp EXCEPT ![r] = TokenMedical]
                /\ sent' = [sent EXCEPT ![r] =
                              Append(@, TokenPost("get_access_token_sync"))]
           ELSE UNCHANGED <<medOp, sent>>
        /\ UNCHANGED <<route, tokOp>>
        /\ UNCHANGED transformer
        /\ Returned(r)

\* Mutant: only None is taken as a missing token, the empty string is used.
medical_token_none_only(access_token) ==
    IF access_token = None
    THEN [pc |-> "done", access_token |-> access_token, i |-> 0,
          result |-> token_not_found]
    ELSE [pc |-> "loop", access_token |-> access_token, i |-> 1,
          result |-> NoResult]

\* Mutant: a token some call already holds is used instead of the fetched one
\* (a module-level token cache).
medical_token_cached(access_token) ==
    LET held == {medOp[q].access_token : q \in Reqs} \cap Tokens
        use == IF held = {} THEN access_token ELSE CHOOSE t \in held : TRUE
    IN  IF ~Truthy(use)
        THEN [pc |-> "done", access_token |-> use, i |-> 0, result |-> token_not_found]
        ELSE [pc |-> "loop", access_token |-> use, i |-> 1, result |-> NoResult]

\* Mutant: the token of the handler's own async_get_token call is used when
\* that call got one.
medical_token_top_level(access_token) ==
    LET top == {tokOp[q].result.data.access_token :
                  q \in {q \in Reqs : tokOp[q].pc = "done"
                                       /\ "data" \in DOMAIN tokOp[q].result}} \cap Tokens
        use == IF top = {} THEN access_token ELSE CHOOSE t \in top : TRUE
    IN  IF ~Truthy(use)
        THEN [pc |-> "done", access_token |-> use, i |-> 0, result |-> token_not_found]
        ELSE [pc |-> "loop", access_token |-> use, i |-> 1, result |-> NoResult]

\* async_submit_medical_request once asyncio.to_thread(get_access_token_sync)
\* has given it access_token.
medical_token(access_token) ==
    IF ~Truthy(access_token)
    THEN [pc |-> "done", access_token |-> access_token, i |-> 0,
          result |-> token_not_found]
    ELSE [pc |-> "loop", access_token |-> access_token, i |-> 1,
          result |-> NoResult]

async_submit_medical_request_token(r) ==
    \E resp \in TokenResponses :
        /\ route[r] \in Callers
        /\ medOp[r].pc = "token"
        /\ medOp' = [medOp EXCEPT ![r] = medical_token(get_access_token_sync(resp))]
        /\ payload' = [payload EXCEPT
                         ![r].medical = IF medOp'[r].pc = "loop"
                                        THEN transform_to_medical_format(person[r], clock)
                                        ELSE @]
        /\ answer' = [answer EXCEPT ![r].token = resp]
        /\ UNCHANGED <<route, tokOp, mcidOp, sent, raw, client, person, clock>>
        /\ Returned(r)

\* The state of the call after candidate op.i got answer resp; a loop that
\* ends without a return makes the coroutine return None.
medical_next(op, resp, medical_payload) ==
    LET attempts == auth_attempts(op.access_token)
        n == Len(attempts)
        out == medical_attempt(op.i, n, attempts[op.i], resp, medical_payload)
    IN  IF out.how = "return"
        THEN [op EXCEPT !.pc = "done", !.result = out.value]
        ELSE IF op.i = n
             THEN [op EXCEPT !.pc = "done", !.result = NoneDict]
             ELSE [op EXCEPT !.i = op.i + 1]

\* Mutant: the body is built anew for every candidate.
async_submit_medical_request_post_rebuilds(r) ==
    \E resp \in MedicalResponses :
        /\ route[r] \in Callers
        /\ medOp[r].pc = "loop"
        /\ payload' = [payload EXCEPT
                         ![r].medical = transform_to_medical_format(person[r], clock)]
        /\ sent' = [sent EXCEPT ![r] =
                      Append(@, MedicalPost(auth_attempts(medOp[r].access_token)[medOp[r].i],
                                            payload'[r].medical,
                                            ~resp.exc /\ resp.status_code = 200))]
        /\ medOp' = [medOp EXCEPT ![r] = medical_next(medOp[r], resp, payload'[r].medical)]
        /\ answer' = [answer EXCEPT ![r].medical = resp]
        /\ UNCHANGED <<route, tokOp, mcidOp, raw, person, clock, client>>
        /\ Returned(r)

\* One pass of the candidate loop: requests.post(medical_url, headers=headers,
\* json=medical_payload, timeout=30) and what follows its answer.
async_submit_medical_request_post(r) ==
    \E resp \in MedicalResponses :
        /\ route[r] \in Callers
        /\ medOp[r].pc = "loop"
        /\ sent' = [sent EXCEPT ![r] =
                      Append(@, MedicalPost(auth_attempts(medOp[r].access_token)[medOp[r].i],
                                            payload[r].medical,
                                            ~resp.exc /\ resp.status_code = 200))]
        /\ medOp' = [medOp EXCEPT ![r] = medical_next(medOp[r], resp, payload[r].medical)]
        /\ answer' = [answer EXCEPT ![r].medical = resp]
        /\ UNCHANGED <<route, tokOp, mcidOp>>
        /\ UNCHANGED transformer
        /\ Returned(r)

\* ------------------------------------- milliman_mcp_server.py: call_all

\* The tools registered with @mcp.tool(name=...), and their parameters.
mcp_tools == {"get_token", "mcid_search", "medical_submit", "call_all"}

tool_parameters(tool_name) ==
    CASE tool_name = "get_token" -> {}
      [] tool_name \in {"mcid_search", "medical_submit"} -> {"body"}
      [] OTHER -> {"mcid_body", "medical_body"}

\* The route of a tool function: its name when invoke_tool runs it, "mcp."
\* and its name when it is called as a tool.
CallAllRoutes == {"call_all", "mcp.call_all"}
GetTokenRoutes == CallAllRoutes \cup {"get_token", "mcp.get_token"}
McidSearchRoutes == CallAllRoutes \cup {"mcid_search", "mcp.mcid_search"}
MedicalSubmitRoutes == CallAllRoutes \cup {"medical_submit", "mcp.medical_submit"}

\* Mutant: the token fetch and the MCID search are started together.
call_all_gather(r) ==
    /\ route[r] = "idle"
    /\ route' = [route EXCEPT ![r] = "call_all"]
    /\ tokOp' = [tokOp EXCEPT ![r] = WaitOp]
    /\ mcidOp' = [mcidOp EXCEPT ![r] = WaitOp]
    /\ sent' = [sent EXCEPT ![r] = @ \o <<TokenPost("get_token"), McidPost("mcid_search")>>]
    /\ UNCHANGED <<medOp, answer, reply>>
    /\ UNCHANGED transformer

\* invoke_tool("call_all"): call_all awaits get_token(), which issues its POST.
call_all(r) ==
    /\ route[r] = "idle"
    /\ route' = [route EXCEPT ![r] = "call_all"]
    /\ tokOp' = [tokOp EXCEPT ![r] = WaitOp]
    /\ sent' = [sent EXCEPT ![r] = Append(@, TokenPost("get_token"))]
    /\ UNCHANGED <<mcidOp, medOp, answer, reply>>
    /\ UNCHANGED transformer

\* The tool function tool_name starts under route rt and runs to its first
\* await: get_token and call_all issue the token POST, mcid_search the MCID
\* POST, and medical_submit awaits get_token(), which issues the token POST.
tool_begin(r, tool_name, rt) ==
    /\ route' = [route EXCEPT ![r] = rt]
    /\ tokOp' = [tokOp EXCEPT ![r] = IF tool_name \in {"get_token", "call_all"}
                                     THEN WaitOp ELSE @]
    /\ mcidOp' = [mcidOp EXCEPT ![r] = IF tool_name = "mcid_search" THEN WaitOp ELSE @]
    /\ medOp' = [medOp EXCEPT ![r] = IF tool_name = "medical_submit"
                                     THEN TokenMedical ELSE @]
    /\ sent' = [sent EXCEPT ![r] = Append(@, IF tool_name = "mcid_search"
                                             THEN McidPost("mcid_search")
                                             ELSE TokenPost("get_token"))]
    /\ UNCHANGED <<answer, reply>>
    /\ UNCHANGED transformer

NotFound == [http_status |-> 404, detail |-> "not found"]

\* POST /invoke/{tool_name} with a JSON object of the keys payload: 404 for a
\* name that is no tool; tool.invoke(**payload) raises, before the tool runs,
\* when payload does not hold exactly the tool's parameters.
invoke_tool(r, tool_name, payload_keys) ==
    /\ route[r] = "idle"
    /\ IF tool_name \notin mcp_tools \/ payload_keys # tool_parameters(tool_name)
       THEN /\ route' = [route EXCEPT ![r] = "invoke_tool"]
            /\ reply' = [reply EXCEPT ![r] = IF tool_name \notin mcp_tools
                                             THEN NotFound ELSE HTTPException]
            /\ UNCHANGED <<tokOp, mcidOp, medOp, sent, answer>>
            /\ UNCHANGED transformer
       ELSE IF tool_name = "call_all"
            THEN call_all(r)
            ELSE tool_begin(r, tool_name, tool_name)

\* A tool function called as a tool, without invoke_tool.
tool_call(r, tool_name) ==
    /\ route[r] = "idle"
    /\ tool_begin(r, tool_name, "mcp." \o tool_name)

\* The token endpoint answers get_token() (call_all's own, or the tool called
\* alone); call_all goes on to mcid_search, which issues its POST.
get_token(r) ==
    \E resp \in TokenResponses :
        LET out == get_token_result(resp) IN
        /\ route[r] \in GetTokenRoutes
        /\ tokOp[r].pc = "wait"
        /\ answer' = [answer EXCEPT ![r].top_token = resp]
        /\ tokOp' = [tokOp EXCEPT ![r] = IF out.how = "raise" THEN RaisedOp
                                         ELSE DoneOp(out.value)]
        /\ IF out.how # "raise" /\ route[r] \in CallAllRoutes
           THEN /\ mcidOp' = [mcidOp EXCEPT ![r] = WaitOp]
                /\ sent' = [sent EXCEPT ![r] = Append(@, McidPost("mcid_search"))]
           ELSE UNCHANGED <<mcidOp, sent>>
        /\ UNCHANGED <<route, medOp>>
        /\ UNCHANGED transformer
        /\ Returned(r)

\* The MCID endpoint answers mcid_search; call_all goes on to medical_submit,
\* which awaits its own get_token().
mcid_search(r) ==
    \E resp \in McidResponses :
        LET out == mcid_search_result(resp) IN
        /\ route[r] \in McidSearchRoutes
        /\ mcidOp[r].pc = "wait"
        /\ answer' = [answer EXCEPT ![r].mcid = resp]
        /\ mcidOp' = [mcidOp EXCEPT ![r] = IF out.how = "raise" THEN RaisedOp
                                           ELSE DoneOp(out.value)]
        /\ IF out.how # "raise" /\ route[r] \in CallAllRoutes
           THEN /\ medOp' = [medOp EXCEPT ![r] = TokenMedical]
                /\ sent' = [sent EXCEPT ![r] = Append(@, TokenPost("get_token"))]
           ELSE UNCHANGED <<medOp, sent>>
        /\ UNCHANGED <<route, tokOp>>
        /\ UNCHANGED transformer
        /\ Returned(r)

\* medical_submit once its get_token() ended with out: it raises, or issues
\* the medical POST with the Bearer header.
medical_submit_token(out) ==
    IF out.how = "raise"
    THEN RaisedMedical(None)
    ELSE IF ~Truthy(out.value.access_token)
         THEN RaisedMedical(out.value.access_token)
         ELSE [pc |-> "post", access_token |-> out.value.access_token, i |-> 0,
               result |-> NoResult]

medical_submit_get_token(r) ==
    \E resp \in TokenResponses :
        /\ route[r] \in MedicalSubmitRoutes
        /\ medOp[r].pc = "token"
        /\ answer' = [answer EXCEPT ![r].token = resp]
        /\ medOp' = [medOp EXCEPT ![r] = medical_submit_token(get_token_result(resp))]
        /\ sent' = [sent EXCEPT ![r] =
                      IF medOp'[r].pc = "post"
                      THEN Append(@, MedicalPostAwaited(bearer_headers(medOp'[r].access_token)))
                      ELSE @]
        /\ UNCHANGED <<route, tokOp, mcidOp>>
        /\ UNCHANGED transformer
        /\ Returned(r)

\* The medical endpoint answers medical_submit.
medical_submit(r) ==
    \E resp \in MedicalResponses :
        LET out == medical_submit_result(resp) IN
        /\ route[r] \in MedicalSubmitRoutes
        /\ medOp[r].pc = "post"
        /\ answer' = [answer EXCEPT ![r].medical = resp]
        /\ medOp' = [medOp EXCEPT ![r] =
                       IF out.how = "raise"
                       THEN RaisedMedical(@.access_token)
                       ELSE [@ EXCEPT !.pc = "done", !.result = out.value]]
        /\ UNCHANGED <<route, tokOp, mcidOp, sent>>
        /\ UNCHANGED transformer
        /\ Returned(r)

\* ------------------------ invoke_router.py: async_submit_medical_alt

\* The answers of the medical endpoint to the candidates of
\* async_submit_medical_alt: the kind of body varies on a 200, which ends the
\* loop.
AltBodyKinds == BodyKinds \cup {"long_text"}

AltResponses ==
    {Raised} \cup
    [exc : {FALSE}, status_code : {200}, kind : AltBodyKinds] \cup
    [exc : {FALSE}, status_code : MedicalStatuses \ {200}, kind : {"json"}]

ClientHeaders ==
    ("Client-ID" :> <<"MILLIMAN">>) @@ ("X-Client-Version" :> <<"1.0">>)

AnthemHeaders ==
    ("X-Anthem-Client" :> <<"Milliman">>) @@ ("X-Anthem-Version" :> <<"1.0">>)

Attempt(name, headers) == [name |-> name, headers |-> headers]

\* auth_attempts of async_submit_medical_alt.
alt_auth_attempts(access_token) ==
    << Attempt("Standard Bearer",
               ("Authorization" :> <<"Bearer", access_token>>) @@ JsonHeaders),
       Attempt("Raw Token",
               ("Authorization" :> <<access_token>>) @@ JsonHeaders),
       Attempt("Token Prefix",
               ("Authorization" :> <<"Token", access_token>>) @@ JsonHeaders),
       Attempt("Basic Auth",
               ("Authorization" :> <<"Basic", access_token>>) @@ JsonHeaders),
       Attempt("Bearer with API Version",
               ("Authorization" :> <<"Bearer", access_token>>) @@ JsonHeaders
                   @@ VersionHeaders),
       Attempt("Bearer with Client ID",
               ("Authorization" :> <<"Bearer", access_token>>) @@ JsonHeaders
                   @@ ClientHeaders),
       Attempt("OAuth Bearer",
               ("Authorization" :> <<"OAuth", access_token>>) @@ JsonHeaders),
       Attempt("Custom Anthem Format",
               ("Authorization" :> <<"Bearer", access_token>>) @@ JsonHeaders
                   @@ AnthemHeaders) >>

redacted_headers(headers) ==
    [k \in DOMAIN headers |-> IF IsAuthKey(k) THEN <<"***REDACTED***">> ELSE headers[k]]

\* response.json() if response.content else "No content"; response.text on
\* any exception; a str is cut to its first 1000 characters, which shortens
\* only a text longer than that ("long_text").
alt_response_body(resp) ==
    CASE resp.kind = "json" -> "json"
      [] resp.kind = "empty" -> "No content"
      [] resp.kind = "long_text" -> "text[:1000]"
      [] OTHER -> "text"

\* The entry appended to results for one candidate: result_entry (with the
\* two keys a 403 adds to it), or the entry of the except clause.  The
\* upstream's response_headers and content_length are not modelled.
result_entry(attempt, resp) ==
    IF resp.exc
    THEN [attempt_name |-> attempt.name,
          status_code |-> 500,
          error |-> "exc",
          success |-> FALSE,
          authorization_issue |-> TRUE]
    ELSE [attempt_name |-> attempt.name,
          status_code |-> resp.status_code,
          success |-> resp.status_code = 200,
          body |-> alt_response_body(resp),
          request_headers |-> redacted_headers(attempt.headers)]
         @@ (IF resp.status_code = 403
             THEN [authorization_issue |-> TRUE,
                   suggestion |-> "Check if token has required permissions for medical API"]
             ELSE <<>>)

\* access_token[:10] + '...' if access_token and len(access_token) > 10
\* else access_token
token_starts_with(access_token) ==
    IF Truthy(access_token) /\ Len(access_token) > 10
    THEN SubSeq(access_token, 1, 10) \o "..."
    ELSE access_token

token_info(access_token) ==
    [token_present |-> Truthy(access_token),
     token_length |-> IF Truthy(access_token) THEN Len(access_token) ELSE 0,
     token_starts_with |-> token_starts_with(access_token)]

\* The envelope async_submit_medical_alt returns after its loop;
\* successful_result is NoneDict for Python's None.  payload_sent is the body
\* (its payload_size, the length of the JSON text, is not modelled).
alt_return(access_token, medical_payload, results, successful_result) ==
    [success |-> successful_result # NoneDict,
     results |-> results,
     payload_sent |-> medical_payload,
     successful_auth_format |-> IF successful_result # NoneDict
                                THEN successful_result.attempt_name
                                ELSE None,
     request_id |-> medical_payload.requestID,
     total_attempts |-> Len(alt_auth_attempts(access_token)),
     token_info |-> token_info(access_token)]

IdleAlt == [pc |-> "token", access_token |-> None, i |-> 0, result |-> NoResult,
            results |-> <<>>]

\* async_submit_medical_alt once asyncio.to_thread(get_access_token_sync) has
\* given it access_token.
alt_token(access_token) ==
    IF ~Truthy(access_token)
    THEN [IdleAlt EXCEPT !.pc = "done", !.access_token = access_token,
                         !.result = token_not_found]
    ELSE [IdleAlt EXCEPT !.pc = "loop", !.access_token = access_token, !.i = 1]

\* Mutant: a 200 does not end the loop.
alt_next_no_break(op, resp, medical_payload) ==
    LET attempts == alt_auth_attempts(op.access_token)
        entry == result_entry(attempts[op.i], resp)
        results == Append(op.results, entry)
        oks == {j \in 1..Len(results) : results[j].success}
    IN  IF op.i = Len(attempts)
        THEN [op EXCEPT !.pc = "done", !.results = results,
                        !.result = alt_return(op.access_token, medical_payload, results,
                                              IF oks = {} THEN NoneDict
                                              ELSE results[CHOOSE j \in oks : \A k \in oks : k >= j])]
        ELSE [op EXCEPT !.i = op.i + 1, !.results = results]

\* Mutant: total_attempts counts the candidates that were tried.
alt_next_counts_tried(op, resp, medical_payload) ==
    LET attempts == alt_auth_attempts(op.access_token)
        entry == result_entry(attempts[op.i], resp)
        results == Append(op.results, entry)
    IN  IF entry.success
        THEN [op EXCEPT !.pc = "done", !.results = results,
                        !.result = [alt_return(op.access_token, medical_payload, results, entry)
                                      EXCEPT !.total_attempts = Len(results)]]
        ELSE IF op.i = Len(attempts)
             THEN [op EXCEPT !.pc = "done", !.results = results,
                             !.result = alt_return(op.access_token, medical_payload,
                                                   results, NoneDict)]
             ELSE [op EXCEPT !.i = op.i + 1, !.results = results]

\* The state of the call after candidate op.i got answer resp: the entry is
\* appended; a 200 breaks the loop; after the loop the envelope is returned.
alt_next(op, resp, medical_payload) ==
    LET attempts == alt_auth_attempts(op.access_token)
        entry == result_entry(attempts[op.i], resp)
        results == Append(op.results, entry)
    IN  IF entry.success
        THEN [op EXCEPT !.pc = "done", !.results = results,
                        !.result = alt_return(op.access_token, medical_payload, results, entry)]
        ELSE IF op.i = Len(attempts)
             THEN [op EXCEPT !.pc = "done", !.results = results,
                             !.result = alt_return(op.access_token, medical_payload,
                                                   results, NoneDict)]
             ELSE [op EXCEPT !.i = op.i + 1, !.results = results]

\* FastAPI builds person_data; async_submit_medical_alt starts its token fetch.
submit_medical_alt_http(r) ==
    /\ route[r] = "idle"
    /\ route' = [route EXCEPT ![r] = "submit_medical_alt"]
    /\ person' = [person EXCEPT ![r] = PersonRequest(raw[r])]
    /\ medOp' = [medOp EXCEPT ![r] = IdleAlt]
    /\ sent' = [sent EXCEPT ![r] = Append(@, TokenPost("get_access_token_sync"))]
    /\ UNCHANGED <<tokOp, mcidOp, answer, reply, raw, client, payload, clock>>

\* The handler returns the result of async_submit_medical_alt.
submit_medical_alt_return(r) ==
    reply' = [reply EXCEPT ![r] = IF medOp'[r].pc = "done"
                                  THEN Reply(route[r], medOp'[r].result) ELSE NoReply]

async_submit_medical_alt_token(r) ==
    \E resp \in TokenResponses :
        /\ route[r] \in AltRoutes
        /\ medOp[r].pc = "token"
        /\ medOp' = [medOp EXCEPT ![r] = alt_token(get_access_token_sync(resp))]
        /\ payload' = [payload EXCEPT
                         ![r].medical = IF medOp'[r].pc = "loop"
                                        THEN transform_to_medical_format(person[r], clock)
                                        ELSE @]
        /\ answer' = [answer EXCEPT ![r].token = resp]
        /\ UNCHANGED <<route, tokOp, mcidOp, sent, raw, client, person, clock>>
        /\ submit_medical_alt_return(r)

async_submit_medical_alt_post(r) ==
    \E resp \in AltResponses :
        /\ route[r] \in AltRoutes
        /\ medOp[r].pc = "loop"
        /\ sent' = [sent EXCEPT ![r] =
                      Append(@, MedicalPost(
                                   alt_auth_attempts(medOp[r].access_token)[medOp[r].i].headers,
                                   payload[r].medical,
                                   ~resp.exc /\ resp.status_code = 200))]
        /\ medOp' = [medOp EXCEPT ![r] = alt_next(medOp[r], resp, payload[r].medical)]
        /\ answer' = [answer EXCEPT ![r].medical = resp]
        /\ UNCHANGED <<route, tokOp, mcidOp>>
        /\ UNCHANGED transformer
        /\ submit_medical_alt_return(r)

\* ----------------------------- invoke_router.py: debug_transforms_http

\* Request bodies, where the person is the subject.
MaxDate == 3
MaxZips == 2
MaxClock == 2

RECURSIVE SeqsUpTo(_, _)
SeqsUpTo(S, n) ==
    IF n = 0 THEN {<<>>}
    ELSE LET shorter == SeqsUpTo(S, n - 1)
         IN  shorter \cup {Append(q, x) : q \in shorter, x \in S}

RawNames == {<<"J">>, <<" ", "J">>}
RawDates == SeqsUpTo({"1", "-"}, MaxDate)
RawGenders ==
    {<<"M">>, <<"F">>, <<"m">>, <<"f">>, <<"x">>, <<>>,
     <<" ", "f">>, <<"f", "m">>, <<"x", " ">>}
RawZips == {<<"1">>, <<"2">>, <<" ", "1">>}
RawZipLists == SeqsUpTo(RawZips, MaxZips)

RawPersons ==
    [firstName : RawNames, lastName : {<<"D">>}, ssn : {<<"1">>},
     dateOfBirth : RawDates, gender : RawGenders, zipCodes : RawZipLists]

\* Time passes.
Tick ==
    /\ clock < MaxClock
    /\ clock' = clock + 1
    /\ UNCHANGED <<route, tokOp, mcidOp, medOp, sent, answer, reply, raw, client,
                   person, payload>>

\* FastAPI builds person_data from the request body; the handler builds
\* mcid_format.  person[r] is the object person_data after the call.
debug_transforms_http(r) ==
    LET call == transform_to_mcid_format_call(PersonRequest(raw[r]), clock) IN
    /\ route[r] = "idle"
    /\ route' = [route EXCEPT ![r] = "debug_transforms"]
    /\ person' = [person EXCEPT ![r] = call.person_data]
    /\ payload' = [payload EXCEPT ![r].mcid = call.returned]
    /\ UNCHANGED <<tokOp, mcidOp, medOp, sent, answer, reply, raw, client, clock>>

\* The handler builds medical_format and returns; person_data.dict() is read
\* after both calls.
debug_transforms_return(r) ==
    LET call == transform_to_medical_format_call(person[r], clock) IN
    /\ route[r] \in DebugTransformsRoutes
    /\ reply[r] = NoReply
    /\ person' = [person EXCEPT ![r] = call.person_data]
    /\ payload' = [payload EXCEPT ![r].medical = call.returned]
    /\ reply' = [reply EXCEPT
                   ![r] = Reply(route[r], [success |-> TRUE,
                                           original_input |-> person'[r],
                                           mcid_transformed |-> payload'[r].mcid,
                                           medical_transformed |-> payload'[r].medical])]
    /\ UNCHANGED <<route, tokOp, mcidOp, medOp, sent, answer, raw, client, clock>>

\* -------------------- invoke_router.py: debug_auth and debug_auth_http

\* access_token[:20] + "..." if access_token and len(access_token) > 20
\* else access_token
token_preview(access_token) ==
    IF Truthy(access_token) /\ Len(access_token) > 20
    THEN SubSeq(access_token, 1, 20) \o "..."
    ELSE access_token

authentication(access_token, token_response) ==
    [token_available |-> Truthy(access_token),
     token_length |-> IF Truthy(access_token) THEN Len(access_token) ELSE 0,
     token_preview |-> token_preview(access_token),
     token_endpoint_response |-> token_response]

\* bool(medical_payload.get(k)) for the eight keys: requestID is the str of an
\* integer and callerId a literal, which are never empty.
required_fields_present(medical_payload) ==
    [requestID |-> TRUE,
     firstName |-> medical_payload.firstName # <<>>,
     lastName |-> medical_payload.lastName # <<>>,
     ssn |-> medical_payload.ssn # <<>>,
     dateOfBirth |-> medical_payload.dateOfBirth # <<>>,
     gender |-> medical_payload.gender # <<>>,
     zipCodes |-> medical_payload.zipCodes # <<>>,
     callerId |-> medical_payload.callerId # ""]

\* debug_info of the tool debug_auth.
debug_info_tool(access_token, token_response, medical_payload) ==
    [authentication |-> authentication(access_token, token_response),
     payload_validation |->
         [medical_payload |-> medical_payload,
          required_fields_present |-> required_fields_present(medical_payload)]]

\* debug_info of debug_auth_http before its HEAD request (payload_size_bytes,
\* the length of the JSON text, is not modelled).
debug_info_http(access_token, token_response, medical_payload) ==
    [authentication |-> authentication(access_token, token_response),
     payload |->
         [medical_payload |-> medical_payload,
          required_fields_present |-> required_fields_present(medical_payload)],
     endpoint |-> [medical_url |-> "medical", url_reachable |-> TRUE]]

\* What the medical endpoint answers to requests.head(medical_url, timeout=10).
HeadResponses == {Raised} \cup [exc : {FALSE}, status_code : MedicalStatuses]

\* debug_info["endpoint"] after the HEAD request (server_headers are not
\* modelled).
endpoint(resp) ==
    IF resp.exc
    THEN [medical_url |-> "medical", url_reachable |-> FALSE,
          connectivity_error |-> "exc"]
    ELSE [medical_url |-> "medical", url_reachable |-> TRUE,
          head_request_status |-> resp.status_code]

minimal_headers(access_token) ==
    ("Authorization" :> <<"Bearer", access_token>>)
        @@ ("Content-Type" :> <<"application/json">>)

minimal_payload(medical_payload) ==
    [requestID |-> medical_payload.requestID, callerId |-> "Milliman-Test16"]

\* debug_info["minimal_test"]: minimal_response.text[:500] is the empty str for
\* an answer without content (response_headers are not modelled).
minimal_test(resp) ==
    IF resp.exc
    THEN [error |-> "exc"]
    ELSE [status_code |-> resp.status_code,
          response_body |-> IF resp.kind = "empty" THEN "" ELSE "text[:500]"]

\* The HEAD request and the minimal POST of debug_auth_http as entries of sent.
HeadRequest(ok) == [to |-> "medical", method |-> "HEAD", ok |-> ok]

recommendations_tool ==
    << "Use submit_medical_alt tool for comprehensive authorization testing",
       "Check if token has required scopes for medical API access",
       "Verify client credentials have proper permissions",
       "Contact API administrator if authorization continues to fail" >>

recommendations_http ==
    << "Check if token has required scopes/permissions for medical API",
       "Verify client credentials have access to medical resources",
       "Check if additional headers or parameters are required",
       "Contact API administrator to verify account permissions" >>

debug_auth_result(debug_info, recommendations) ==
    [success |-> TRUE, debug_info |-> debug_info, recommendations |-> recommendations]

\* FastAPI builds person_data; the handler starts
\* asyncio.to_thread(get_access_token_sync).
debug_auth_http(r) ==
    /\ route[r] = "idle"
    /\ route' = [route EXCEPT ![r] = "debug_auth"]
    /\ person' = [person EXCEPT ![r] = PersonRequest(raw[r])]
    /\ medOp' = [medOp EXCEPT ![r] = TokenMedical]
    /\ sent' = [sent EXCEPT ![r] = Append(@, TokenPost("get_access_token_sync"))]
    /\ UNCHANGED <<tokOp, mcidOp, answer, reply, raw, client, payload, clock>>

\* The tool builds person_data and starts
\* asyncio.to_thread(get_access_token_sync).
debug_auth(r) ==
    /\ route[r] = "idle"
    /\ route' = [route EXCEPT ![r] = "mcp.debug_auth"]
    /\ person' = [person EXCEPT ![r] = PersonRequest(raw[r])]
    /\ medOp' = [medOp EXCEPT ![r] = TokenMedical]
    /\ sent' = [sent EXCEPT ![r] = Append(@, TokenPost("get_access_token_sync"))]
    /\ UNCHANGED <<tokOp, mcidOp, answer, reply, raw, client, payload, clock>>

\* get_access_token_sync has given access_token; async_get_token issues its
\* POST.
debug_auth_access_token(r) ==
    \E resp \in TokenResponses :
        /\ route[r] \in DebugAuthRoutes
        /\ medOp[r].pc = "token"
        /\ medOp' = [medOp EXCEPT ![r] = [@ EXCEPT !.pc = "token_response",
                                                   !.access_token = get_access_token_sync(resp)]]
        /\ tokOp' = [tokOp EXCEPT ![r] = WaitOp]
        /\ sent' = [sent EXCEPT ![r] = Append(@, TokenPost("async_get_token"))]
        /\ answer' = [answer EXCEPT ![r].token = resp]
        /\ UNCHANGED <<route, mcidOp, reply>>
        /\ UNCHANGED transformer

\* The token endpoint answers async_get_token; medical_payload and debug_info
\* are built.  The tool returns; the HTTP handler goes on to its HEAD request.
debug_auth_token_response(r) ==
    \E resp \in TokenResponses :
        LET token_response == async_get_token_result(resp)
            medical_payload == transform_to_medical_format(person[r], clock)
            access_token == medOp[r].access_token
        IN  /\ route[r] \in DebugAuthRoutes
            /\ medOp[r].pc = "token_response"
            /\ tokOp[r].pc = "wait"
            /\ tokOp' = [tokOp EXCEPT ![r] = DoneOp(token_response)]
            /\ answer' = [answer EXCEPT ![r].top_token = resp]
            /\ payload' = [payload EXCEPT ![r].medical = medical_payload]
            /\ IF route[r] = "mcp.debug_auth"
               THEN /\ medOp' = [medOp EXCEPT
                                   ![r] = [@ EXCEPT
                                             !.pc = "done",
                                             !.result = debug_info_tool(access_token,
                                                                        token_response,
                                                                        medical_payload)]]
                    /\ reply' = [reply EXCEPT
                                   ![r] = ToolResult(debug_auth_result(medOp'[r].result,
                                                                       recommendations_tool))]
               ELSE /\ medOp' = [medOp EXCEPT
                                   ![r] = [@ EXCEPT
                                             !.pc = "head",
                                             !.result = debug_info_http(access_token,
                                                                        token_response,
                                                                        medical_payload)]]
                    /\ UNCHANGED reply
            /\ UNCHANGED <<route, mcidOp, sent, raw, client, person, clock>>

\* requests.head(medical_url, timeout=10) and what follows its answer: without
\* an access token the handler returns.
debug_auth_http_head(r) ==
    \E resp \in HeadResponses :
        /\ route[r] = "debug_auth"
        /\ medOp[r].pc = "head"
        /\ sent' = [sent EXCEPT ![r] = Append(@, HeadRequest(~resp.exc))]
        /\ medOp' = [medOp EXCEPT
                       ![r] = [pc |-> IF Truthy(medOp[r].access_token)
                                      THEN "minimal" ELSE "done",
                               access_token |-> medOp[r].access_token,
                               i |-> medOp[r].i,
                               result |-> [medOp[r].result EXCEPT
                                             !.endpoint = endpoint(resp)]]]
        /\ reply' = [reply EXCEPT
                       ![r] = IF medOp'[r].pc = "done"
                              THEN Ok(debug_auth_result(medOp'[r].result,
                                                        recommendations_http))
                              ELSE NoReply]
        /\ UNCHANGED <<route, tokOp, mcidOp, answer>>
        /\ UNCHANGED transformer

\* requests.post(medical_url, headers=minimal_headers, json=minimal_payload,
\* timeout=10); the handler returns.
debug_auth_http_minimal(r) ==
    \E resp \in MedicalResponses :
        /\ route[r] = "debug_auth"
        /\ medOp[r].pc = "minimal"
        /\ sent' = [sent EXCEPT
                      ![r] = Append(@, MedicalPost(minimal_headers(medOp[r].access_token),
                                                   minimal_payload(payload[r].medical),
                                                   ~resp.exc /\ resp.status_code = 200))]
        /\ medOp' = [medOp EXCEPT
                       ![r] = [pc |-> "done",
                               access_token |-> medOp[r].access_token,
                               i |-> medOp[r].i,
                               result |-> [k \in DOMAIN medOp[r].result \cup {"minimal_test"} |->
                                             IF k = "minimal_test" THEN minimal_test(resp)
                                             ELSE medOp[r].result[k]]]]
        /\ answer' = [answer EXCEPT ![r].medical = resp]
        /\ reply' = [reply EXCEPT
                       ![r] = Ok(debug_auth_result(medOp'[r].result, recommendations_http))]
        /\ UNCHANGED <<route, tokOp, mcidOp>>
        /\ UNCHANGED transformer

\* ----------------------- invoke_router.py: the other @mcp.tool() functions

\* Each tool builds person_data itself and awaits the coroutine its HTTP
\* counterpart awaits.
get_auth_token(r) ==
    /\ route[r] = "idle"
    /\ route' = [route EXCEPT ![r] = "mcp.get_auth_token"]
    /\ tokOp' = [tokOp EXCEPT ![r] = WaitOp]
    /\ sent' = [sent EXCEPT ![r] = Append(@, TokenPost("async_get_token"))]
    /\ UNCHANGED <<mcidOp, medOp, answer, reply>>
    /\ UNCHANGED transformer

search_mcid(r) ==
    /\ route[r] = "idle"
    /\ route' = [route EXCEPT ![r] = "mcp.search_mcid"]
    /\ person' = [person EXCEPT ![r] = PersonRequest(raw[r])]
    /\ payload' = [payload EXCEPT ![r].mcid = transform_to_mcid_format(person'[r], clock)]
    /\ mcidOp' = [mcidOp EXCEPT ![r] = WaitOp]
    /\ sent' = [sent EXCEPT ![r] = Append(@, McidPost("async_mcid_search"))]
    /\ UNCHANGED <<tokOp, medOp, answer, reply, raw, client, clock>>

submit_medical(r) ==
    /\ route[r] = "idle"
    /\ route' = [route EXCEPT ![r] = "mcp.submit_medical"]
    /\ person' = [person EXCEPT ![r] = PersonRequest(raw[r])]
    /\ medOp' = [medOp EXCEPT ![r] = TokenMedical]
    /\ sent' = [sent EXCEPT ![r] = Append(@, TokenPost("get_access_token_sync"))]
    /\ UNCHANGED <<tokOp, mcidOp, answer, reply, raw, client, payload, clock>>

submit_medical_alt(r) ==
    /\ route[r] = "idle"
    /\ route' = [route EXCEPT ![r] = "mcp.submit_medical_alt"]
    /\ person' = [person EXCEPT ![r] = PersonRequest(raw[r])]
    /\ medOp' = [medOp EXCEPT ![r] = IdleAlt]
    /\ sent' = [sent EXCEPT ![r] = Append(@, TokenPost("get_access_token_sync"))]
    /\ UNCHANGED <<tokOp, mcidOp, answer, reply, raw, client, payload, clock>>

\* asyncio.gather starts the MCID coroutine, then the medical coroutine.
get_both(r) ==
    /\ route[r] = "idle"
    /\ route' = [route EXCEPT ![r] = "mcp.get_both"]
    /\ person' = [person EXCEPT ![r] = PersonRequest(raw[r])]
    /\ payload' = [payload EXCEPT ![r].mcid = transform_to_mcid_format(person'[r], clock)]
    /\ mcidOp' = [mcidOp EXCEPT ![r] = WaitOp]
    /\ medOp' = [medOp EXCEPT ![r] = TokenMedical]
    /\ sent' = [sent EXCEPT ![r] =
                  @ \o <<McidPost("async_mcid_search"),
                         TokenPost("get_access_token_sync")>>]
    /\ UNCHANGED <<tokOp, answer, reply, raw, client, clock>>

\* The tool builds person_data and mcid_format; debug_transforms_return builds
\* medical_format and returns.
debug_transforms(r) ==
    LET call == transform_to_mcid_format_call(PersonRequest(raw[r]), clock) IN
    /\ route[r] = "idle"
    /\ route' = [route EXCEPT ![r] = "mcp.debug_transforms"]
    /\ person' = [person EXCEPT ![r] = call.person_data]
    /\ payload' = [payload EXCEPT ![r].mcid = call.returned]
    /\ UNCHANGED <<tokOp, mcidOp, medOp, sent, answer, reply, raw, client, clock>>

test_connection(r) ==
    /\ route[r] = "idle"
    /\ route' = [route EXCEPT ![r] = "mcp.test_connection"]
    /\ person' = [person EXCEPT ![r] = PersonRequest(raw[r])]
    /\ tokOp' = [tokOp EXCEPT ![r] = WaitOp]
    /\ sent' = [sent EXCEPT ![r] = Append(@, TokenPost("async_get_token"))]
    /\ UNCHANGED <<mcidOp, medOp, answer, reply, raw, client, payload, clock>>

\* --------------------------------------------------- tool.py: milliman_tool

Message(text) == [role |-> "tool", text |-> text]
ErrorText == [error |-> "exc"]

\* The headers requests sends for {"Authorization": access_token,
\* "content-type": "application/json"}: a header whose value is None is dropped.
tool_headers(access_token) ==
    IF access_token = None
    THEN ("content-type" :> <<"application/json">>)
    ELSE ("Authorization" :> <<access_token>>) @@ ("content-type" :> <<"application/json">>)

\* The tool is invoked and issues its token POST.
milliman_tool(r) ==
    /\ route[r] = "idle"
    /\ route' = [route EXCEPT ![r] = "milliman_tool"]
    /\ medOp' = [medOp EXCEPT ![r] = TokenMedical]
    /\ sent' = [sent EXCEPT ![r] = Append(@, TokenPost("milliman_tool"))]
    /\ UNCHANGED <<tokOp, mcidOp, answer, reply>>
    /\ UNCHANGED transformer

\* token_resp.json().get("access_token"), whatever the status; then the MCID
\* POST.  A transport failure or a body that is not JSON raises.
milliman_tool_token(r) ==
    \E resp \in TokenResponses :
        /\ route[r] = "milliman_tool"
        /\ medOp[r].pc = "token"
        /\ answer' = [answer EXCEPT ![r].token = resp]
        /\ IF resp.exc \/ resp.kind # "json"
           THEN /\ medOp' = [medOp EXCEPT ![r] = RaisedMedical(None)]
                /\ reply' = [reply EXCEPT ![r] = Message(ErrorText)]
                /\ UNCHANGED <<mcidOp, sent>>
           ELSE /\ medOp' = [medOp EXCEPT ![r] = [@ EXCEPT !.pc = "mcid",
                                                          !.access_token = resp.access_token]]
                /\ mcidOp' = [mcidOp EXCEPT ![r] = WaitOp]
                /\ sent' = [sent EXCEPT ![r] = Append(@, McidPost("milliman_tool"))]
                /\ UNCHANGED reply
        /\ UNCHANGED <<route, tokOp>>
        /\ UNCHANGED transformer

\* mcid_resp.json(); then the medical POST, made in a thread.
milliman_tool_mcid(r) ==
    \E resp \in McidResponses :
        /\ route[r] = "milliman_tool"
        /\ mcidOp[r].pc = "wait"
        /\ answer' = [answer EXCEPT ![r].mcid = resp]
        /\ IF resp.exc \/ resp.kind # "json"
           THEN /\ mcidOp' = [mcidOp EXCEPT ![r] = RaisedOp]
                /\ reply' = [reply EXCEPT ![r] = Message(ErrorText)]
                /\ UNCHANGED <<medOp, sent>>
           ELSE /\ mcidOp' = [mcidOp EXCEPT
                                ![r] = DoneOp([status_code |-> resp.status_code,
                                               body |-> "json"])]
                /\ medOp' = [medOp EXCEPT ![r].pc = "post"]
                /\ sent' = [sent EXCEPT
                              ![r] = Append(@, MedicalPostAwaited(
                                                  tool_headers(medOp[r].access_token)))]
                /\ UNCHANGED reply
        /\ UNCHANGED <<route, tokOp>>
        /\ UNCHANGED transformer

\* The medical endpoint answers; the tool returns its Message.
milliman_tool_medical(r) ==
    \E resp \in MedicalResponses :
        /\ route[r] = "milliman_tool"
        /\ medOp[r].pc = "post"
        /\ answer' = [answer EXCEPT ![r].medical = resp]
        /\ IF resp.exc
           THEN /\ medOp' = [medOp EXCEPT ![r] = RaisedMedical(@.access_token)]
                /\ reply' = [reply EXCEPT ![r] = Message(ErrorText)]
           ELSE /\ medOp' = [medOp EXCEPT ![r] = [@ EXCEPT !.pc = "done",
                                                          !.result = [status_code |-> resp.status_code]]]
                /\ reply' = [reply EXCEPT
                               ![r] = Message([token_acquired |-> Truthy(medOp[r].access_token),
                                               mcid_status |-> mcidOp[r].result.status_code,
                                               medical_status |-> resp.status_code,
                                               mcid_response |-> mcidOp[r].result.body])]
        /\ UNCHANGED <<route, tokOp, mcidOp, sent>>
        /\ UNCHANGED transformer

\* ------------------------------ app.py: MillimanFastMCPClient.call_tool

available_tools == {"get_token", "mcid_search", "submit_medical", "all"}

\* The tool names a caller may pass.
ToolNames == available_tools \cup {"call_all"}

\* The body of an answer whose text is no JSON.
NotJson == [not_json |-> TRUE]

\* The JSON bodies of a 200, each as the Python value response.json() gives,
\* under the name of its type: a dict for an object, a str for a string, a
\* list for an array, None for null, an int for a number and a bool for true
\* or false.  There are objects with and without the members "result" and
\* "error", strings and arrays that hold these words or do not, null, a
\* number and a boolean.
JsonBodies ==
    {[dict |-> [result |-> [str |-> "data"]]],
     [dict |-> [error |-> [str |-> "failed"]]],
     [dict |-> [result |-> [str |-> "data"], error |-> [str |-> "failed"]]],
     [dict |-> [status_code |-> [int |-> 200]]],
     [str |-> "no result"], [str |-> "an error"], [str |-> "ok"],
     [list |-> <<[str |-> "result"]>>], [list |-> <<[str |-> "error"]>>],
     [list |-> <<[str |-> "an error"]>>], [list |-> <<>>],
     [NoneType |-> "None"], [int |-> 5], [bool |-> TRUE]}

\* type(value).__name__
type(value) == CHOOSE t \in DOMAIN value : TRUE

\* What the server answers to one POST of the client.  With
\* follow_redirects=True a 3xx status reaches call_tool only when the answer
\* has no location header.
ClientStatuses == {200, 307, 404, 500}
ClientResponses ==
    {Raised} \cup
    [exc : {FALSE}, status_code : {200}, body : JsonBodies \cup {NotJson}] \cup
    [exc : {FALSE}, status_code : ClientStatuses \ {200}, body : {NotJson}]

\* The four URLs call_tool knows, below server_url.
tool_url(tool_name) == <<"/tool/", tool_name>>
messages_url == <<"/messages">>
alternative_endpoints(tool_name) == << <<"/tool/", tool_name, "/">>, <<"/tools/", tool_name>> >>

\* client.post(url) for the tools without arguments, client.post(url,
\* json=arguments) for the others; /messages always gets mcp_request.
ToolPost(url, tool_name) ==
    [url |-> url, json |-> IF tool_name \in {"get_token", "all"} THEN "none" ELSE "arguments"]
MessagesPost == [url |-> messages_url, json |-> "mcp_request"]

RaiseWith(error) == [how |-> "raise", error |-> error]

\* response.json(): raises on a body that is no JSON.
json(resp) == IF resp.body = NotJson THEN Raise ELSE Return(resp.body)

\* Mutant: a 200 whose body is no JSON is returned as it is.
direct_attempt_lenient(resp) ==
    IF resp.exc THEN Continue
    ELSE IF resp.status_code = 200
         THEN Return(resp.body)
         ELSE Continue

\* Strategy 1 and each alternative endpoint: a 200 whose body parses is
\* returned; anything else, an exception included, goes on.  A 3xx of
\* strategy 1 comes without location, so nothing is followed.
direct_attempt(resp) ==
    IF resp.exc THEN Continue
    ELSE IF resp.status_code = 200
         THEN IF json(resp).how = "raise" THEN Continue ELSE json(resp)
         ELSE Continue

\* `key in result` for a str key: key is a key of the dict, a substring of
\* the str, an element of the list.  On None, a number and a bool it raises
\* TypeError, which the callers test before.
contains(key, result) ==
    CASE type(result) = "dict" -> key \in DOMAIN result.dict
      [] type(result) = "str" ->
            \E i \in 1..(Len(result.str) - Len(key) + 1) :
                SubSeq(result.str, i, i + Len(key) - 1) = key
      [] type(result) = "list" ->
            \E i \in 1..Len(result.list) : result.list[i] = [str |-> key]
      [] OTHER -> FALSE

\* Mutant: the MCP error leaves call_tool.
messages_attempt_propagates(resp) ==
    IF resp.exc THEN Continue
    ELSE IF resp.status_code = 200
         THEN IF json(resp).how = "raise" THEN Continue
              ELSE LET result == json(resp).value IN
                   IF type(result) \notin {"dict", "str", "list"} THEN Continue
                   ELSE IF contains("result", result)
                        THEN IF type(result) = "dict" THEN Return(result.dict.result)
                             ELSE Continue
                   ELSE IF contains("error", result) THEN RaiseWith("MCP error")
                   ELSE Return(result)
         ELSE Continue

\* Strategy 2.  `"result" in result` raises TypeError on None, a number and a
\* bool; result["result"] is the member of a dict and raises TypeError on a
\* str and on a list; an "error" without "result" raises the MCP error.  Each
\* raise is inside the try and caught at line 145, and the client goes on.
messages_attempt(resp) ==
    IF resp.exc THEN Continue
    ELSE IF resp.status_code = 200
         THEN IF json(resp).how = "raise" THEN Continue
              ELSE LET result == json(resp).value IN
                   IF type(result) \notin {"dict", "str", "list"} THEN Continue
                   ELSE IF contains("result", result)
                        THEN IF type(result) = "dict" THEN Return(result.dict.result)
                             ELSE Continue
                   ELSE IF contains("error", result) THEN Continue
                   ELSE Return(result)
         ELSE Continue

AllFailed == RaiseWith("All endpoint strategies failed")

\* The client after the strategy at pc got answer resp with outcome out: it
\* returns, or raises, or POSTs to the next URL next_pc/next_post.
client_next(c, resp, out, next_pc, next_post) ==
    IF out.how # "continue"
    THEN [c EXCEPT !.pc = "done", !.answers = Append(@, resp), !.outcome = out]
    ELSE [c EXCEPT !.pc = next_pc, !.answers = Append(@, resp),
                   !.contacted = Append(@, next_post)]

\* call_tool(tool_name): ValueError for a name that is not available, else the
\* POST of strategy 1.
call_tool(tool_name) ==
    /\ client.pc = "idle"
    /\ client' = IF tool_name \notin available_tools
                 THEN [client EXCEPT !.pc = "done", !.tool_name = tool_name,
                                     !.outcome = RaiseWith("ValueError")]
                 ELSE [client EXCEPT !.pc = "direct", !.tool_name = tool_name,
                                     !.contacted = <<ToolPost(tool_url(tool_name), tool_name)>>]
    /\ UNCHANGED <<route, tokOp, mcidOp, medOp, sent, answer, reply, raw, person, payload,
                   clock>>

call_tool_direct ==
    \E resp \in ClientResponses :
        /\ client.pc = "direct"
        /\ client' = client_next(client, resp, direct_attempt(resp), "messages", MessagesPost)
        /\ UNCHANGED <<route, tokOp, mcidOp, medOp, sent, answer, reply, raw, person,
                       payload, clock>>

call_tool_messages ==
    \E resp \in ClientResponses :
        /\ client.pc = "messages"
        /\ client' = client_next(client, resp, messages_attempt(resp), "alternative",
                                 ToolPost(alternative_endpoints(client.tool_name)[1],
                                          client.tool_name))
        /\ UNCHANGED <<route, tokOp, mcidOp, medOp, sent, answer, reply, raw, person,
                       payload, clock>>

\* One pass of `for alt_url in alternative_endpoints`; after the last, the
\* raise of line 172, which the outer except re-raises.
call_tool_alternative ==
    \E resp \in ClientResponses :
        LET tried == Len(client.contacted) - 2
            alts == alternative_endpoints(client.tool_name)
            out == direct_attempt(resp)
        IN  /\ client.pc = "alternative"
            /\ client' = IF out.how = "continue" /\ tried = Len(alts)
                         THEN [client EXCEPT !.pc = "done", !.answers = Append(@, resp),
                                             !.outcome = AllFailed]
                         ELSE client_next(client, resp, out, "alternative",
                                          ToolPost(alts[IF tried < Len(alts) THEN tried + 1
                                                        ELSE tried],
                                                   client.tool_name))
            /\ UNCHANGED <<route, tokOp, mcidOp, medOp, sent, answer, reply, raw, person,
                           payload, clock>>

\* ------------------------------------------------------ specifications

\* One inbound request, served by any handler.
Next ==
    \E r \in Solo :
        \/ get_auth_token_http(r)
        \/ search_mcid_http(r)
        \/ submit_medical_http(r)
        \/ get_both_http(r)
        \/ test_connection_http(r)
        \/ async_get_token(r)
        \/ async_mcid_search(r)
        \/ async_submit_medical_request_token(r)
        \/ async_submit_medical_request_post(r)
        \/ call_all(r)
        \/ get_token(r)
        \/ mcid_search(r)
        \/ medical_submit_get_token(r)
        \/ medical_submit(r)

Spec == Init /\ [][Next]_vars

\* An outbound call that carries a timeout ends by raising when its upstream
\* stays silent: client.post of async_get_token (httpx's default timeout),
\* client.post(..., timeout=30) of async_mcid_search, and
\* requests.post(..., timeout=30) of the candidate loop.  requests.post of
\* get_access_token_sync carries none.
async_get_token_timeout(r) == async_get_token(r) /\ answer'[r].top_token = Raised
async_mcid_search_timeout(r) == async_mcid_search(r) /\ answer'[r].mcid = Raised
medical_post_timeout(r) ==
    async_submit_medical_request_post(r) /\ answer'[r].medical = Raised
get_token_timeout(r) == get_token(r) /\ answer'[r].top_token = Raised
mcid_search_timeout(r) == mcid_search(r) /\ answer'[r].mcid = Raised
medical_submit_get_token_timeout(r) ==
    medical_submit_get_token(r) /\ answer'[r].token = Raised
medical_submit_timeout(r) == medical_submit(r) /\ answer'[r].medical = Raised

\* One inbound request; no upstream is bound to answer, but every call that
\* carries a timeout ends.
SpecLive ==
    /\ Spec
    /\ \A r \in Solo :
        /\ WF_vars(async_get_token_timeout(r))
        /\ WF_vars(async_mcid_search_timeout(r))
        /\ WF_vars(medical_post_timeout(r))
        /\ WF_vars(get_token_timeout(r))
        /\ WF_vars(mcid_search_timeout(r))
        /\ WF_vars(medical_submit_get_token_timeout(r))
        /\ WF_vars(medical_submit_timeout(r))

\* Two inbound requests of invoke_router.py in flight at once.
NextConcurrent ==
    \E r \in Reqs :
        \/ get_auth_token_http(r)
        \/ search_mcid_http(r)
        \/ submit_medical_http(r)
        \/ async_get_token(r)
        \/ async_mcid_search(r)
        \/ async_submit_medical_request_token(r)
        \/ async_submit_medical_request_post(r)

SpecConcurrent == Init /\ [][NextConcurrent]_vars

\* One request to /debug_transforms, with any person in its body, while time
\* passes.
InitTransform ==
    /\ Idle
    /\ raw \in {[r \in Reqs |-> IF r \in Solo THEN p ELSE SampleRaw(r)] : p \in RawPersons}
    /\ clock = 0

NextTransform ==
    \/ Tick
    \/ \E r \in Solo :
        \/ debug_transforms_http(r)
        \/ debug_transforms_return(r)

SpecTransform == InitTransform /\ [][NextTransform]_vars

\* Two requests to /debug_transforms with the same body, while time passes: each
\* transform is called twice on equal person records.
InitTwice ==
    /\ Idle
    /\ raw \in {[r \in Reqs |-> p] : p \in RawPersons}
    /\ clock = 0

NextTwice ==
    \/ Tick
    \/ \E r \in Reqs :
        \/ debug_transforms_http(r)
        \/ debug_transforms_return(r)

SpecTwice == InitTwice /\ [][NextTwice]_vars

\* Requests that build upstream bodies while time passes: two requests to
\* /search_mcid in flight at once, or one request to /get_both or to
\* /debug_transforms.
NextClock ==
    \/ Tick
    \/ \E r \in Reqs :
        \/ search_mcid_http(r)
        \/ async_mcid_search(r)
    \/ \E r \in Solo :
        \/ debug_transforms_http(r)
        \/ debug_transforms_return(r)
        \/ get_both_http(r)
        \/ async_submit_medical_request_token(r)
        \/ async_submit_medical_request_post(r)

SpecClock == Init /\ [][NextClock]_vars

\* The single-header tools: milliman_tool of tool.py, and medical_submit of
\* milliman_mcp_server.py as call_all awaits it.
NextTool ==
    \E r \in Solo :
        \/ milliman_tool(r)
        \/ milliman_tool_token(r)
        \/ milliman_tool_mcid(r)
        \/ milliman_tool_medical(r)
        \/ call_all(r)
        \/ get_token(r)
        \/ mcid_search(r)
        \/ medical_submit_get_token(r)
        \/ medical_submit(r)

SpecTool == Init /\ [][NextTool]_vars

\* The names and payloads a caller of POST /invoke/{tool_name} may send.
InvokeNames == mcp_tools \cup {"nope"}
Payloads == {{}, {"body"}, {"mcid_body", "medical_body"}}

\* One request to /invoke/{tool_name}, or one call of a tool of
\* milliman_mcp_server.py.
NextInvoke ==
    \E r \in Solo :
        \/ \E tool_name \in InvokeNames, payload_keys \in Payloads :
              invoke_tool(r, tool_name, payload_keys)
        \/ \E tool_name \in mcp_tools : tool_call(r, tool_name)
        \/ get_token(r)
        \/ mcid_search(r)
        \/ medical_submit_get_token(r)
        \/ medical_submit(r)

SpecInvoke == Init /\ [][NextInvoke]_vars

\* One request to /submit_medical_alt or to /submit_medical.
NextAlt ==
    \E r \in Solo :
        \/ submit_medical_alt_http(r)
        \/ async_submit_medical_alt_token(r)
        \/ async_submit_medical_alt_post(r)
        \/ submit_medical_http(r)
        \/ async_submit_medical_request_token(r)
        \/ async_submit_medical_request_post(r)

SpecAlt == Init /\ [][NextAlt]_vars

\* One request to /debug_auth, or one call of the tool debug_auth, while time
\* passes.
NextDebugAuth ==
    \/ Tick
    \/ \E r \in Solo :
        \/ debug_auth_http(r)
        \/ debug_auth(r)
        \/ debug_auth_access_token(r)
        \/ debug_auth_token_response(r)
        \/ debug_auth_http_head(r)
        \/ debug_auth_http_minimal(r)

SpecDebugAuth == Init /\ [][NextDebugAuth]_vars

\* One call of an @mcp.tool() function that awaits the coroutines of the HTTP
\* handlers.
NextMcp ==
    \E r \in Solo :
        \/ get_auth_token(r)
        \/ search_mcid(r)
        \/ submit_medical(r)
        \/ get_both(r)
        \/ test_connection(r)
        \/ debug_transforms(r)
        \/ debug_transforms_return(r)
        \/ async_get_token(r)
        \/ async_mcid_search(r)
        \/ async_submit_medical_request_token(r)
        \/ async_submit_medical_request_post(r)

SpecMcp == Init /\ [][NextMcp]_vars

\* One call of the tool submit_medical_alt.
NextMcpAlt ==
    \E r \in Solo :
        \/ submit_medical_alt(r)
        \/ async_submit_medical_alt_token(r)
        \/ async_submit_medical_alt_post(r)

SpecMcpAlt == Init /\ [][NextMcpAlt]_vars

\* One call of call_tool by the client.
NextClient ==
    \/ \E tool_name \in ToolNames : call_tool(tool_name)
    \/ call_tool_direct
    \/ call_tool_messages
    \/ call_tool_alternative

SpecClient == Init /\ [][NextClient]_vars

\* ------------------------------------------------------------- claims

MedicalPosts(r) == SelectSeq(sent[r], LAMBDA e : e.to = "medical")
TokenPosts(r) == SelectSeq(sent[r], LAMBDA e : e.to = "token")
McidPosts(r) == SelectSeq(sent[r], LAMBDA e : e.to = "mcid")

\* The requests on which async_submit_medical_request has been called.
InSubmitMedical(r) == route[r] \in RouterRoutes /\ medOp[r].pc # "idle"

\* The Authorization values in the declared order, as the specification gives
\* them: Bearer <token>, raw <token>, Token <token>, Bearer with extra headers.
DeclaredAuthorization(t) == << <<"Bearer", t>>, <<t>>, <<"Token", t>>, <<"Bearer", t>> >>
NumCandidates == Len(DeclaredAuthorization("t"))

\* The token part of an Authorization value.
TokenOf(auth) == auth[Len(auth)]

\* C1: the candidates are POSTed strictly in the declared order, and once a
\* candidate is answered 200 the call has returned that answer and no later
\* candidate is POSTed.
C1_DeclaredOrderStopsAtFirst200 ==
    \A r \in Reqs : InSubmitMedical(r) =>
        LET m == MedicalPosts(r) IN
        /\ Len(m) <= NumCandidates
        /\ \A j \in 1..Len(m) :
              /\ m[j].headers["Authorization"]
                    = DeclaredAuthorization(medOp[r].access_token)[j]
              /\ ("X-Requested-With" \in DOMAIN m[j].headers) <=> (j = NumCandidates)
              /\ m[j].ok =>
                    /\ j = Len(m)
                    /\ medOp[r].pc = "done"
                    /\ medOp[r].result.success
                    /\ medOp[r].result.status_code = 200
                    /\ medOp[r].result.status_code = answer[r].medical.status_code
                    /\ medOp[r].result.auth_attempt = j

C1_Witness ==
    \E r \in Reqs :
        /\ route[r] = "submit_medical"
        /\ medOp[r].pc = "done"
        /\ Len(MedicalPosts(r)) = 2
        /\ MedicalPosts(r)[2].ok
        /\ ~MedicalPosts(r)[1].ok

\* The 1-based index of the first candidate answered 200, or the number of
\* candidates if none was.
FirstOk(m) ==
    IF \E j \in 1..Len(m) : m[j].ok
    THEN CHOOSE j \in 1..Len(m) : m[j].ok /\ \A k \in 1..(j - 1) : ~m[k].ok
    ELSE NumCandidates

\* C2: when the call has returned after a token was obtained, the number of
\* medical POSTs issued is the index of the first candidate answered 200 (N if
\* none), auth_attempt is that index, and a 200 from the last candidate after
\* N-1 refusals gives status_code 200, success true, auth_attempt N.
C2_AttemptsEqualFirst200Index ==
    \A r \in Reqs :
        (InSubmitMedical(r) /\ medOp[r].pc = "done" /\ Truthy(medOp[r].access_token)) =>
            LET m == MedicalPosts(r) IN
            /\ Len(m) = FirstOk(m)
            /\ medOp[r].result # NoneDict
            /\ medOp[r].result.auth_attempt = FirstOk(m)
            /\ (Len(m) = NumCandidates /\ m[NumCandidates].ok) =>
                  /\ medOp[r].result.status_code = 200
                  /\ medOp[r].result.success
                  /\ medOp[r].result.auth_attempt = NumCandidates

C2_Witness ==
    \E r \in Reqs :
        /\ InSubmitMedical(r)
        /\ medOp[r].pc = "done"
        /\ Len(MedicalPosts(r)) = NumCandidates
        /\ MedicalPosts(r)[NumCandidates].ok
        /\ medOp[r].result.auth_attempt = NumCandidates

\* The token endpoint's answer a yields no token: the code's test.
NoTokenFrom(a) ==
    \/ a.exc
    \/ a.status_code >= 400
    \/ a.kind # "json"
    \/ a.access_token \in {"", None}

\* The token endpoint's answer a is a failure as the specification words it:
\* non-200, transport failure, or no access_token.
FailsAsSpecified(a) ==
    \/ a.exc
    \/ a.status_code # 200
    \/ a.kind # "json"
    \/ a.access_token \in {"", None}

TokenErrorAndNoMedicalPost(r) ==
    /\ medOp[r].pc = "done"
    /\ DOMAIN medOp[r].result = {"success", "status_code", "error"}
    /\ medOp[r].result.success = FALSE
    /\ medOp[r].result.status_code = 500
    /\ medOp[r].result.error = "Access token not found"
    /\ MedicalPosts(r) = <<>>

\* C3 (as amended): when the token fetch yields no token (4xx/5xx status,
\* transport failure, non-JSON body, missing or empty access_token) the call
\* returns at once the error envelope with status 500 and "Access token not
\* found", and no POST goes to the medical endpoint.
C3_NoTokenNoMedicalPost ==
    \A r \in Reqs :
        (InSubmitMedical(r) /\ answer[r].token # NoAnswer /\ NoTokenFrom(answer[r].token))
            => TokenErrorAndNoMedicalPost(r)

\* C3 as stated: every non-200 answer of the token endpoint counts as a failed
\* fetch.
C3_AsStated ==
    \A r \in Reqs :
        (InSubmitMedical(r) /\ answer[r].token # NoAnswer /\ FailsAsSpecified(answer[r].token))
            => TokenErrorAndNoMedicalPost(r)

C3_Witness ==
    \E r \in Reqs :
        /\ route[r] = "submit_medical"
        /\ answer[r].token # NoAnswer
        /\ ~answer[r].token.exc
        /\ answer[r].token.status_code = 401
        /\ TokenErrorAndNoMedicalPost(r)
        /\ reply[r] = Ok(token_not_found)

\* C4: if no candidate was answered 200 and the last candidate got an HTTP
\* response, the call returns the last candidate's result with the status
\* received: a result with data and no error, not a synthetic 500 and not an
\* exception; nothing of the earlier candidates is in it.
C4_LastCandidateStatusReturned ==
    \A r \in Reqs :
        LET m == MedicalPosts(r) IN
        (/\ InSubmitMedical(r)
         /\ Len(m) = NumCandidates
         /\ \A j \in 1..Len(m) : ~m[j].ok
         /\ ~answer[r].medical.exc) =>
            /\ medOp[r].pc = "done"
            /\ medOp[r].result # NoneDict
            /\ medOp[r].result.status_code = answer[r].medical.status_code
            /\ medOp[r].result.success = FALSE
            /\ "data" \in DOMAIN medOp[r].result
            /\ "error" \notin DOMAIN medOp[r].result
            /\ medOp[r].result.auth_attempt = NumCandidates
            /\ medOp[r].result.auth_format = "Bearer"
            /\ route[r] = "submit_medical" => reply[r] = Ok(medOp[r].result)

C4_Witness ==
    \E r \in Reqs :
        /\ route[r] = "submit_medical"
        /\ Len(MedicalPosts(r)) = NumCandidates
        /\ ~answer[r].medical.exc
        /\ answer[r].medical.status_code = 403
        /\ medOp[r].pc = "done"
        /\ medOp[r].result.status_code = 403

\* C5: a transport exception on a candidate that is not the last leaves the
\* call running with the next candidate; on the last candidate the call
\* returns an error envelope with status 500.
C5_ExceptionContinuesOrEndsWith500 ==
    \A r \in Reqs :
        LET m == MedicalPosts(r) IN
        (InSubmitMedical(r) /\ m # <<>> /\ answer[r].medical = Raised) =>
            IF Len(m) < NumCandidates
            THEN /\ medOp[r].pc = "loop"
                 /\ medOp[r].i = Len(m) + 1
            ELSE /\ medOp[r].pc = "done"
                 /\ medOp[r].result # NoneDict
                 /\ medOp[r].result.status_code = 500
                 /\ medOp[r].result.success = FALSE
                 /\ "error" \in DOMAIN medOp[r].result

C5_Witness ==
    \E r \in Reqs :
        /\ InSubmitMedical(r)
        /\ Len(MedicalPosts(r)) = NumCandidates
        /\ answer[r].medical = Raised
        /\ medOp[r].pc = "done"
        /\ medOp[r].result.status_code = 500

\* C6: async_mcid_search issues exactly one POST to the MCID endpoint; any
\* HTTP response, 200 or not, gives an envelope with data and the upstream
\* status code, and only a transport exception gives the error envelope, with
\* status 500.
C6_McidNon200IsNotAnError ==
    \A r \in Reqs :
        (route[r] \in RouterRoutes /\ mcidOp[r].pc # "idle") =>
            /\ Len(McidPosts(r)) = 1
            /\ mcidOp[r].pc \in {"wait", "done"}
            /\ mcidOp[r].pc = "done" =>
                  LET a == answer[r].mcid
                      e == mcidOp[r].result
                  IN  IF a.exc
                      THEN /\ DOMAIN e = {"success", "status_code", "error", "request_id"}
                           /\ e.status_code = 500
                           /\ e.success = FALSE
                      ELSE /\ DOMAIN e = {"success", "status_code", "data", "request_id"}
                           /\ e.status_code = a.status_code
                           /\ e.success = (a.status_code = 200)
            /\ (route[r] = "search_mcid" /\ mcidOp[r].pc = "done")
                  => reply[r] = Ok(mcidOp[r].result)

C6_Witness ==
    \E r \in Reqs :
        /\ route[r] = "search_mcid"
        /\ mcidOp[r].pc = "done"
        /\ ~answer[r].mcid.exc
        /\ answer[r].mcid.status_code = 400
        /\ mcidOp[r].result.status_code = 400
        /\ "data" \in DOMAIN mcidOp[r].result
        /\ reply[r].http_status = 200

\* The token endpoint's answer a is a success as the specification words it:
\* HTTP 200 with a JSON body holding a non-empty access_token.
GoodTokenAnswer(a) ==
    /\ ~a.exc
    /\ a.status_code = 200
    /\ a.kind = "json"
    /\ a.access_token \notin {"", None}

\* The number of token fetches begun for r by invoke_router.py.
FetchesBegun(r) ==
    (IF tokOp[r].pc # "idle" THEN 1 ELSE 0) + (IF medOp[r].pc # "idle" THEN 1 ELSE 0)

\* C7 (as amended): each token fetch is one POST, never retried.
\* get_access_token_sync yields a token exactly when the status is below 400,
\* the body is JSON and access_token is present and non-empty, and the token
\* is the one of the answer; async_get_token reports success exactly when the
\* status is 200, whatever the body, and a transport failure as status 500.
C7_TokenFetchOutcome ==
    \A r \in Reqs : route[r] \in RouterRoutes =>
        /\ Len(TokenPosts(r)) = FetchesBegun(r)
        /\ tokOp[r].pc = "done" =>
              LET a == answer[r].top_token
                  e == tokOp[r].result
              IN  /\ e.success <=> (~a.exc /\ a.status_code = 200)
                  /\ a.exc => (e.status_code = 500 /\ "error" \in DOMAIN e)
                  /\ ~a.exc => e.status_code = a.status_code
        /\ answer[r].token # NoAnswer =>
              /\ Truthy(medOp[r].access_token) <=> ~NoTokenFrom(answer[r].token)
              /\ Truthy(medOp[r].access_token) =>
                    medOp[r].access_token = answer[r].token.access_token

\* C7 as stated: success is reported only for HTTP 200 with a JSON body
\* holding a non-empty access_token.
C7_AsStated ==
    \A r \in Reqs : route[r] \in RouterRoutes =>
        /\ (tokOp[r].pc = "done" /\ tokOp[r].result.success)
              => GoodTokenAnswer(answer[r].top_token)
        /\ (answer[r].token # NoAnswer /\ Truthy(medOp[r].access_token))
              => GoodTokenAnswer(answer[r].token)

C7_Witness ==
    \E r \in Reqs :
        /\ route[r] = "submit_medical"
        /\ answer[r].token # NoAnswer
        /\ ~answer[r].token.exc
        /\ answer[r].token.status_code = 201
        /\ medOp[r].access_token = "tok1"
        /\ Len(TokenPosts(r)) = 1
        /\ MedicalPosts(r) # <<>>

\* C8: every call of async_submit_medical_request begins with a token fetch of
\* its own, before its first medical POST, and every Authorization value it
\* sends carries the token that fetch was given, whatever another request,
\* earlier or in flight, was given.
C8_OwnFreshToken ==
    \A r \in Reqs : route[r] \in RouterRoutes =>
        /\ route[r] = "submit_medical" =>
              (Len(TokenPosts(r)) = 1 /\ sent[r][1] = TokenPost("get_access_token_sync"))
        /\ \A j \in 1..Len(sent[r]) :
              sent[r][j].to = "medical" =>
                  /\ \E k \in 1..(j - 1) : sent[r][k] = TokenPost("get_access_token_sync")
                  /\ answer[r].token # NoAnswer
                  /\ ~answer[r].token.exc
                  /\ TokenOf(sent[r][j].headers["Authorization"])
                        = answer[r].token.access_token

C8_Witness ==
    /\ \A r \in Reqs : route[r] = "submit_medical" /\ medOp[r].pc = "loop"
    /\ Len(MedicalPosts("r1")) = 2
    /\ Len(MedicalPosts("r2")) = 1
    /\ answer["r1"].token.access_token = "tok2-0123456789"
    /\ answer["r2"].token.access_token = "tok1"

\* A tool of call_all raised: the answers that make get_token, mcid_search or
\* medical_submit raise.
CallAllRaised(r) ==
    LET a == answer[r] IN
    \/ a.top_token # NoAnswer /\ (a.top_token.exc \/ a.top_token.status_code >= 400
                                   \/ a.top_token.kind # "json")
    \/ a.mcid # NoAnswer /\ (a.mcid.exc \/ a.mcid.kind # "json")
    \/ a.token # NoAnswer /\ NoTokenFrom(a.token)
    \/ a.medical # NoAnswer /\ (a.medical.exc \/ a.medical.status_code # 200
                                 \/ a.medical.kind # "json")

\* C9 (as amended): get_both_http answers once both calls are done, with HTTP
\* 200 and both envelopes, a failed call being the envelope with success
\* false in its own field; call_all instead fails as a whole, with no field
\* returned, as soon as one of its tools raises, and returns its three fields
\* only when none did.
C9_CombinedReply ==
    \A r \in Reqs :
        /\ route[r] = "get_both" =>
              /\ reply[r] # NoReply <=> (mcidOp[r].pc = "done" /\ medOp[r].pc = "done")
              /\ reply[r] # NoReply =>
                    /\ reply[r].http_status = 200
                    /\ DOMAIN reply[r].body
                          = {"success", "mcid_search", "medical_submit", "timestamp"}
                    /\ reply[r].body.mcid_search = mcidOp[r].result
                    /\ reply[r].body.medical_submit = medOp[r].result
                    /\ {"success", "status_code"} \subseteq DOMAIN reply[r].body.mcid_search
                    /\ {"success", "status_code"} \subseteq DOMAIN reply[r].body.medical_submit
                    /\ reply[r].body.success
                          = (mcidOp[r].result.success \/ medOp[r].result.success)
        /\ route[r] = "call_all" =>
              /\ CallAllRaised(r) <=> reply[r] = HTTPException
              /\ (reply[r] # NoReply /\ ~CallAllRaised(r)) =>
                    /\ reply[r].http_status = 200
                    /\ DOMAIN reply[r].body = {"get_token", "mcid_search", "medical_submit"}

\* C9 as stated: whatever failed, the combined operation answers with its
\* per-field results and does not fail as a whole.
C9_AsStated ==
    \A r \in Reqs :
        (route[r] \in {"get_both", "call_all"} /\ reply[r] # NoReply) =>
            /\ reply[r].http_status = 200
            /\ {"mcid_search", "medical_submit"} \subseteq DOMAIN reply[r].body

C9_Witness ==
    \E r \in Reqs :
        /\ route[r] = "get_both"
        /\ answer[r].mcid = Raised
        /\ reply[r] # NoReply
        /\ reply[r].http_status = 200
        /\ reply[r].body.mcid_search.status_code = 500
        /\ reply[r].body.medical_submit.success
        /\ reply[r].body.success

\* C10 (as amended): the medical submission fetches its own token and every
\* Authorization value it sends carries that token, not the top-level one.  In
\* test_connection_http one request makes two token fetches and the medical
\* result follows from the medical call's own fetch, whatever the top-level
\* fetch gave; in call_all the second fetch and the medical submission happen
\* only if the top-level fetch and the MCID search did not raise.
C10_MedicalUsesOwnFetch ==
    \A r \in Reqs : route[r] \in {"test_connection", "call_all"} =>
        /\ \A j \in 1..Len(MedicalPosts(r)) :
              /\ answer[r].token # NoAnswer
              /\ ~answer[r].token.exc
              /\ TokenOf(MedicalPosts(r)[j].headers["Authorization"])
                    = answer[r].token.access_token
        /\ (route[r] = "test_connection" /\ reply[r] # NoReply) =>
              /\ TokenPosts(r) = <<TokenPost("async_get_token"),
                                   TokenPost("get_access_token_sync")>>
              /\ IF NoTokenFrom(answer[r].token)
                 THEN medOp[r].result = token_not_found
                 ELSE MedicalPosts(r) # <<>>
        /\ (route[r] = "call_all" /\ reply[r] # NoReply) =>
              /\ Len(TokenPosts(r)) = IF "raised" \in {tokOp[r].pc, mcidOp[r].pc} THEN 1 ELSE 2
              /\ "raised" \in {tokOp[r].pc, mcidOp[r].pc} => MedicalPosts(r) = <<>>
              /\ tokOp[r].pc = "raised" <=>
                    (answer[r].top_token.exc \/ answer[r].top_token.status_code >= 400
                       \/ answer[r].top_token.kind # "json")

\* C10 as stated: one combined operation issues two token fetches, whatever
\* the top-level fetch gave.
C10_AsStated ==
    \A r \in Reqs :
        (route[r] \in {"test_connection", "call_all"} /\ reply[r] # NoReply) =>
            Len(TokenPosts(r)) = 2

C10_Witness ==
    \E r \in Reqs :
        /\ route[r] = "test_connection"
        /\ reply[r] # NoReply
        /\ ~answer[r].top_token.exc
        /\ answer[r].top_token.status_code = 401
        /\ answer[r].top_token.access_token = "tok1"
        /\ ~answer[r].token.exc
        /\ answer[r].token.access_token = "tok2-0123456789"
        /\ Len(MedicalPosts(r)) = 1
        /\ medOp[r].result # NoneDict
        /\ medOp[r].result.success
        /\ reply[r].http_status = 200
        /\ ~reply[r].body.token_api.reachable
        /\ reply[r].body.medical_api.status = 200

\* The envelope of the call made for r, computed from what belongs to r alone:
\* the answers its own outbound calls were given, the number of its own
\* medical POSTs, and the body built from its own person record.
OwnEnvelope(r) ==
    CASE route[r] = "get_auth_token" -> async_get_token_result(answer[r].top_token)
      [] route[r] = "search_mcid" ->
            async_mcid_search_result(answer[r].mcid, payload[r].mcid)
      [] route[r] = "submit_medical" ->
            IF NoTokenFrom(answer[r].token)
            THEN token_not_found
            ELSE LET attempts == auth_attempts(answer[r].token.access_token)
                     i == Len(MedicalPosts(r))
                 IN  medical_attempt(i, Len(attempts), attempts[i], answer[r].medical,
                                     payload[r].medical).value

\* C11: with two requests in flight at once, under every interleaving, what a
\* request is answered is the envelope that follows from its own person record
\* and the answers to its own outbound calls; the bodies built for it come
\* from its own person record.
C11_ReplyFromOwnCallsOnly ==
    \A r \in Reqs :
        /\ payload[r].mcid # NoPayload =>
              \E now \in 0..MaxClock :
                  payload[r].mcid = transform_to_mcid_format(PersonRequest(raw[r]), now)
        /\ payload[r].medical # NoPayload =>
              \E now \in 0..MaxClock :
                  payload[r].medical = transform_to_medical_format(PersonRequest(raw[r]), now)
        /\ reply[r] # NoReply => reply[r] = Ok(OwnEnvelope(r))

C11_Witness ==
    /\ \A r \in Reqs : route[r] = "submit_medical" /\ reply[r] # NoReply
    /\ reply["r1"].body.success
    /\ Len(MedicalPosts("r1")) = 2
    /\ reply["r2"].body = token_not_found
    /\ payload["r1"].medical # NoPayload
    /\ payload["r2"].medical = NoPayload

\* The status the upstream that settled the call of r answered with: the token
\* endpoint's when no token was obtained, else the MCID or medical endpoint's;
\* 500 when that call raised.
SettlingAnswer(r) ==
    IF route[r] = "search_mcid" THEN answer[r].mcid
    ELSE IF NoTokenFrom(answer[r].token) THEN answer[r].token
    ELSE answer[r].medical

StatusOf(a) == IF a.exc THEN 500 ELSE a.status_code

\* C12 (as amended): /search_mcid and /submit_medical answer HTTP 200 whatever
\* the upstream did, once the call is done; the body's status_code is the
\* status the MCID endpoint, or the last medical candidate, answered with, and
\* the synthetic 500 after a transport failure or when no token was obtained
\* (the token endpoint's own status is not reported).
C12_AlwaysHttp200 ==
    \A r \in Reqs : route[r] \in {"search_mcid", "submit_medical"} =>
        /\ reply[r] # NoReply <=>
              (IF route[r] = "search_mcid" THEN mcidOp[r].pc = "done" ELSE medOp[r].pc = "done")
        /\ reply[r] # NoReply =>
              /\ reply[r].http_status = 200
              /\ {"success", "status_code"} \subseteq DOMAIN reply[r].body
              /\ reply[r].body.status_code =
                    IF route[r] = "submit_medical" /\ NoTokenFrom(answer[r].token)
                    THEN 500
                    ELSE StatusOf(SettlingAnswer(r))

\* C12 as stated: the body's status_code is the real status of the upstream
\* that settled the call, a failing token endpoint included.
C12_AsStated ==
    \A r \in Reqs :
        (route[r] \in {"search_mcid", "submit_medical"} /\ reply[r] # NoReply) =>
            /\ reply[r].http_status = 200
            /\ reply[r].body.status_code = StatusOf(SettlingAnswer(r))

C12_Witness ==
    \E r \in Reqs :
        /\ route[r] = "search_mcid"
        /\ answer[r].mcid = Raised
        /\ reply[r] # NoReply
        /\ reply[r].http_status = 200
        /\ reply[r].body.status_code = 500
        /\ ~reply[r].body.success

\* C13, as stated: every outbound call carries a timeout, so a request to
\* /search_mcid or /submit_medical is eventually answered even if an upstream
\* never responds.
C13_AsStated ==
    \A r \in Solo :
        (route[r] \in {"search_mcid", "submit_medical"}) ~> (reply[r] # NoReply)

\* What does hold: a request to /search_mcid is always answered, and so is a
\* request to /submit_medical once the token endpoint has answered.
C13_AnsweredOnceTokenFetched ==
    \A r \in Solo :
        (route[r] = "search_mcid" \/ (route[r] = "submit_medical" /\ medOp[r].pc = "loop"))
            ~> (reply[r] # NoReply)

\* The call of /submit_medical waiting in get_access_token_sync.
C13_Witness ==
    \E r \in Solo :
        /\ route[r] = "submit_medical"
        /\ medOp[r].pc = "token"
        /\ sent[r] = <<TokenPost("get_access_token_sync")>>
        /\ reply[r] = NoReply

\* The token endpoint answered r's fetch, and the answer holds no usable
\* access_token.
AnsweredWithoutToken(a) ==
    /\ a # NoAnswer
    /\ ~a.exc
    /\ a.access_token \in {"", None}

\* C14, as stated: in milliman_tool and in medical_submit, when the token
\* endpoint answers but yields no usable access_token, an error is surfaced
\* and no POST goes to the medical endpoint.
C14_AsStated ==
    \A r \in Solo :
        (route[r] \in {"milliman_tool", "call_all"} /\ AnsweredWithoutToken(answer[r].token)) =>
            /\ MedicalPosts(r) = <<>>
            /\ reply[r] \in {HTTPException, Message(ErrorText)}

\* milliman_tool has POSTed to the medical endpoint without an Authorization
\* header, after a token answer with no access_token.
C14_Witness ==
    \E r \in Solo :
        /\ route[r] = "milliman_tool"
        /\ AnsweredWithoutToken(answer[r].token)
        /\ answer[r].token.status_code = 200
        /\ Len(MedicalPosts(r)) = 1
        /\ "Authorization" \notin DOMAIN MedicalPosts(r)[1].headers
        /\ reply[r] # NoReply
        /\ reply[r].text # ErrorText
        /\ ~reply[r].text.token_acquired

\* What does hold: medical_submit raises before its POST.
C14_MedicalSubmitRaisesFirst ==
    \A r \in Solo :
        (route[r] = "call_all" /\ AnsweredWithoutToken(answer[r].token)) =>
            /\ MedicalPosts(r) = <<>>
            /\ medOp[r].pc = "raised"
            /\ reply[r] = HTTPException

\* The requests for which FastAPI has built the PersonRequest.
Normalized(r) == person[r] # NoPerson

\* C15: after normalization zipCodes is never empty: an empty list becomes
\* ["00000"], a non-empty list keeps its length and its order, and the zip of
\* the MCID body is zipCodes[0], a zip code and not None.
C15_ZipCodesNeverEmpty ==
    \A r \in Reqs : Normalized(r) =>
        LET given == raw[r].zipCodes
            kept == person[r].zipCodes
        IN  /\ kept # <<>>
            /\ given = <<>> => kept = <<DefaultZip>>
            /\ given # <<>> =>
                  /\ Len(kept) = Len(given)
                  /\ \A j \in 1..Len(given) : kept[j] = strip(given[j])
            /\ payload[r].mcid # NoPayload =>
                  /\ payload[r].mcid.consumer[1].addressList[1].zip = kept[1]
                  /\ payload[r].mcid.consumer[1].addressList[1].zip # NoneStr

C15_Witness ==
    \E r \in Reqs :
        /\ Normalized(r)
        /\ raw[r].zipCodes = <<>>
        /\ person[r].zipCodes = << <<"0", "0", "0", "0", "0">> >>
        /\ payload[r].mcid # NoPayload
        /\ payload[r].mcid.consumer[1].addressList[1].zip = <<"0", "0", "0", "0", "0">>
        /\ reply[r] # NoReply

\* C16 (as amended): once surrounding whitespace is stripped, a gender that is
\* "M" or "F" in either letter case becomes the upper-case letter, and any
\* other string is kept as it is; no string is rejected.
C16_GenderNormalized ==
    \A r \in Reqs :
        /\ route[r] = "debug_transforms" => Normalized(r)
        /\ Normalized(r) =>
              LET g == strip(raw[r].gender)
              IN  person[r].gender =
                      IF g \in {<<"m">>, <<"M">>, <<"f">>, <<"F">>} THEN upper(g) ELSE g

\* C16 as stated: a value other than "M" or "F" in any letter case is passed
\* through unchanged.
C16_AsStated ==
    \A r \in Reqs : Normalized(r) =>
        LET g == raw[r].gender
        IN  person[r].gender =
                IF g \in {<<"m">>, <<"M">>, <<"f">>, <<"F">>} THEN upper(g) ELSE g

C16_Witness ==
    \E r \in Reqs :
        /\ Normalized(r)
        /\ raw[r].gender = <<" ", "f">>
        /\ person[r].gender = <<"F">>
        /\ payload[r].mcid # NoPayload
        /\ payload[r].mcid.consumer[1].sex = <<"F">>

\* The characters of s other than c, in order.
Without(s, c) == SelectSeq(s, LAMBDA x : x # c)

\* C17: the MCID body has exactly one consumer entry; its dob is dateOfBirth
\* with every "-" removed and nothing else changed, its sex is the normalized
\* gender, and its one address has zip zipCodes[0], the other zip codes being
\* dropped.
C17_McidBody ==
    \A r \in Reqs : payload[r].mcid # NoPayload =>
        LET body == payload[r].mcid
            p == person[r]
        IN  /\ Len(body.consumer) = 1
            /\ \A j \in 1..Len(body.consumer[1].dob) : body.consumer[1].dob[j] # "-"
            /\ body.consumer[1].dob = Without(p.dateOfBirth, "-")
            /\ body.consumer[1].sex = p.gender
            /\ body.consumer[1].firstName = p.firstName
            /\ body.consumer[1].lastName = p.lastName
            /\ body.consumer[1].id.ssn = p.ssn
            /\ Len(body.consumer[1].addressList) = 1
            /\ body.consumer[1].addressList[1].zip = p.zipCodes[1]

C17_Witness ==
    \E r \in Reqs :
        /\ payload[r].mcid # NoPayload
        /\ person[r].dateOfBirth = <<"1", "-", "1">>
        /\ payload[r].mcid.consumer[1].dob = <<"1", "1">>
        /\ person[r].zipCodes = << <<"2">>, <<"1">> >>
        /\ payload[r].mcid.consumer[1].addressList[1].zip = <<"2">>
        /\ raw[r].gender = <<"m">>
        /\ payload[r].mcid.consumer[1].sex = <<"M">>

PersonFields == {"firstName", "lastName", "ssn", "dateOfBirth", "gender", "zipCodes"}
ContactFields ==
    {"middleName", "addressLine1", "addressLine2", "city", "state", "country",
     "phoneNumber", "email"}

\* C18 (as amended): the medical body carries the person fields unchanged, the
\* whole zipCodes list included, the fixed caller id, and the optional contact
\* fields, each the empty string except country, which is "US".
C18_MedicalBody ==
    \A r \in Reqs : payload[r].medical # NoPayload =>
        LET body == payload[r].medical
        IN  /\ DOMAIN body = {"requestID", "callerId"} \cup PersonFields \cup ContactFields
            /\ \A k \in PersonFields : body[k] = person[r][k]
            /\ body.callerId = "Milliman-Test16"
            /\ \A k \in ContactFields \ {"country"} : body[k] = ""
            /\ body.country = "US"

\* C18 as stated: every optional contact field of the output is the empty
\* string.
C18_AsStated ==
    \A r \in Reqs : payload[r].medical # NoPayload =>
        \A k \in ContactFields : payload[r].medical[k] = ""

C18_Witness ==
    \E r \in Reqs :
        /\ payload[r].medical # NoPayload
        /\ Len(person[r].zipCodes) = 2
        /\ payload[r].medical.zipCodes = person[r].zipCodes
        /\ payload[r].medical.gender = <<"F">>
        /\ payload[r].medical.country = "US"
        /\ payload[r].medical.email = ""

IdCalls ==
    {<<r, k>> \in Reqs \X {"mcid", "medical"} : payload[r][k] # NoPayload}

\* C20, as stated: no two calls of generate_request_id return the same
\* identifier, be they the two transforms of one request or the transforms of
\* two requests in flight at once.
C20_AsStated ==
    \A c, d \in IdCalls :
        c # d => payload[c[1]][c[2]].requestID # payload[d[1]][d[2]].requestID

\* Two requests to /search_mcid in flight at once, their bodies built at
\* different times with the same requestID.
C20_Witness ==
    /\ \A r \in Reqs : route[r] = "search_mcid" /\ mcidOp[r].pc = "wait"
    /\ clock > 0
    /\ clock < TicksPerMs
    /\ payload["r1"].mcid.requestID = payload["r2"].mcid.requestID

\* C21: get_both starts the MCID search and the medical submission together:
\* from its first step on the MCID POST is out and the medical submission has
\* begun its token fetch, whatever the state of the other; the medical POSTs go
\* out while the MCID search is unanswered, and the MCID search may be answered
\* while the medical submission still runs.  Once both have ended, in either
\* order, the reply is the same function of the two results: mcid_search,
\* medical_submit, and success = mcid success OR medical success.
C21_GetBothInParallel ==
    \A r \in Reqs : route[r] = "get_both" =>
        /\ Len(McidPosts(r)) = 1
        /\ mcidOp[r].pc \in {"wait", "done"}
        /\ medOp[r].pc \in {"token", "loop", "done"}
        /\ Len(TokenPosts(r)) = 1
        /\ (reply[r] # NoReply) <=> (mcidOp[r].pc = "done" /\ medOp[r].pc = "done")
        /\ (mcidOp[r].pc = "done" /\ medOp[r].pc = "done" /\ medOp[r].result # NoneDict) =>
              /\ reply[r].http_status = 200
              /\ reply[r].body.mcid_search = mcidOp[r].result
              /\ reply[r].body.medical_submit = medOp[r].result
              /\ reply[r].body.success
                    = (mcidOp[r].result.success \/ medOp[r].result.success)

\* The medical submission was issued and has ended, with a 200, while the MCID
\* search is still unanswered.
C21_Witness ==
    \E r \in Reqs :
        /\ route[r] = "get_both"
        /\ mcidOp[r].pc = "wait"
        /\ medOp[r].pc = "done"
        /\ MedicalPosts(r) # <<>>
        /\ medOp[r].result.success
        /\ reply[r] = NoReply

\* The other completion order: the MCID search has ended while the medical
\* submission still waits for its token.
C21_McidFirst ==
    \E r \in Reqs :
        /\ route[r] = "get_both"
        /\ mcidOp[r].pc = "done"
        /\ medOp[r].pc = "token"

\* The upstreams call_all addresses, in the order of its three awaits;
\* medical_submit fetches a token of its own before its POST.
CallAllOrder == <<"token", "mcid", "token", "medical">>

\* C22: call_all issues its calls one after the other: the token POST first,
\* the MCID POST only once get_token has returned, the medical submission only
\* once mcid_search has returned; and when all three have returned the reply
\* holds exactly the keys get_token, mcid_search and medical_submit with the
\* three results.
C22_CallAllSequential ==
    \A r \in Reqs : route[r] = "call_all" =>
        LET m == sent[r] IN
        /\ Len(m) \in 1..Len(CallAllOrder)
        /\ \A j \in 1..Len(m) : m[j].to = CallAllOrder[j]
        /\ Len(m) >= 2 <=> tokOp[r].pc = "done"
        /\ Len(m) >= 3 <=> mcidOp[r].pc = "done"
        /\ mcidOp[r].pc # "idle" => tokOp[r].pc = "done"
        /\ medOp[r].pc # "idle" => mcidOp[r].pc = "done"
        /\ (tokOp[r].pc = "done" /\ mcidOp[r].pc = "done" /\ medOp[r].pc = "done") =>
              /\ reply[r].http_status = 200
              /\ DOMAIN reply[r].body = {"get_token", "mcid_search", "medical_submit"}
              /\ reply[r].body.get_token = tokOp[r].result
              /\ reply[r].body.mcid_search = mcidOp[r].result
              /\ reply[r].body.medical_submit = medOp[r].result
        /\ (reply[r] # NoReply /\ reply[r].http_status = 200) => medOp[r].pc = "done"

C22_Witness ==
    \E r \in Reqs :
        /\ route[r] = "call_all"
        /\ Len(sent[r]) = Len(CallAllOrder)
        /\ medOp[r].pc = "done"
        /\ reply[r] # NoReply
        /\ reply[r].http_status = 200
        /\ reply[r].body.medical_submit.status_code = 200

\* The requests on which async_submit_medical_alt went into its candidate loop.
InAltLoop(r) == route[r] = "submit_medical_alt" /\ medOp[r].pc \in {"loop", "done"}
                    /\ Truthy(medOp[r].access_token)

\* The candidate names of async_submit_medical_alt, in list order.
AltNames ==
    <<"Standard Bearer", "Raw Token", "Token Prefix", "Basic Auth",
      "Bearer with API Version", "Bearer with Client ID", "OAuth Bearer",
      "Custom Anthem Format">>

\* C23: submit_medical_alt tries its candidates in list order and stops at the
\* first 200; results holds one entry per attempted candidate, in attempt
\* order; a transport exception is recorded as a status-500 entry and the loop
\* goes on, and after the last candidate the envelope is still returned;
\* success is true iff some candidate got 200, and successful_auth_format is
\* that candidate's name, else null.
C23_AltTriesAllUntilFirst200 ==
    \A r \in Reqs : InAltLoop(r) =>
        LET m == MedicalPosts(r)
            op == medOp[r]
            attempts == alt_auth_attempts(op.access_token)
        IN  /\ Len(m) <= Len(AltNames)
            /\ Len(op.results) = Len(m)
            /\ \A j \in 1..Len(m) :
                  /\ m[j].headers = attempts[j].headers
                  /\ attempts[j].name = AltNames[j]
                  /\ op.results[j].attempt_name = AltNames[j]
                  /\ op.results[j].success = m[j].ok
                  /\ op.results[j].success <=> op.results[j].status_code = 200
                  /\ m[j].ok => j = Len(m)
            /\ (m # <<>> /\ answer[r].medical = Raised) =>
                  /\ op.results[Len(m)].status_code = 500
                  /\ "error" \in DOMAIN op.results[Len(m)]
                  /\ Len(m) < Len(AltNames) => (op.pc = "loop" /\ op.i = Len(m) + 1)
            /\ op.pc = "done" <=> (m # <<>> /\ (m[Len(m)].ok \/ Len(m) = Len(AltNames)))
            /\ op.pc = "done" =>
                  /\ op.result.results = op.results
                  /\ op.result.success <=> (\E j \in 1..Len(m) : m[j].ok)
                  /\ op.result.successful_auth_format
                        = (IF m[Len(m)].ok THEN AltNames[Len(m)] ELSE None)
                  /\ reply[r] = Ok(op.result)

\* Every candidate was tried, the last one raised: the envelope is returned
\* with eight entries and no success.
C23_Witness ==
    \E r \in Reqs :
        /\ InAltLoop(r)
        /\ medOp[r].pc = "done"
        /\ Len(medOp[r].results) = Len(AltNames)
        /\ answer[r].medical = Raised
        /\ ~medOp[r].result.success
        /\ medOp[r].result.successful_auth_format = None
        /\ \E j \in 1..Len(AltNames) : medOp[r].results[j].status_code = 403

\* A candidate in the middle of the list got the 200.
C23_StopsAtFirst200 ==
    \E r \in Reqs :
        /\ InAltLoop(r)
        /\ medOp[r].pc = "done"
        /\ Len(medOp[r].results) = 4
        /\ medOp[r].result.successful_auth_format = "Basic Auth"

\* The URLs of call_tool's strategies, in their order.
StrategyUrls(tool_name) ==
    << <<"/tool/", tool_name>>, <<"/messages">>,
       <<"/tool/", tool_name, "/">>, <<"/tools/", tool_name>> >>

\* The answer a is a 200.
Answers200(a) == ~a.exc /\ a.status_code = 200

\* The JSON body b is an object with the member "result".
HasResultMember(b) == type(b) = "dict" /\ "result" \in DOMAIN b.dict

\* The word is a key of the object b, a part of the string b or an element of
\* the array b.
Holds(b, word) == type(b) \in {"dict", "str", "list"} /\ contains(word, b)

\* What /messages can give back of the JSON body b: the "result" member of an
\* object, or an object, a string or an array that holds neither "result" nor
\* "error".
MessagesUsable(b) ==
    \/ HasResultMember(b)
    \/ /\ type(b) \in {"dict", "str", "list"}
       /\ ~Holds(b, "result")
       /\ ~Holds(b, "error")

\* The 200 answer a of strategy j gives call_tool a value to return.
Usable(j, a) ==
    /\ Answers200(a)
    /\ a.body # NotJson
    /\ j = 2 => MessagesUsable(a.body)

ReturnedFrom(j, a) ==
    IF j = 2 /\ HasResultMember(a.body) THEN a.body.dict.result ELSE a.body

\* The order in which the strategies of a call were contacted.
InStrategyOrder ==
    /\ Len(client.contacted) <= 4
    /\ \A j \in 1..Len(client.contacted) :
          client.contacted[j].url = StrategyUrls(client.tool_name)[j]
    /\ Len(client.answers) \in {Len(client.contacted), Len(client.contacted) - 1}

\* C24 (as amended): call_tool contacts /tool/<name>, /messages, /tool/<name>/
\* and /tools/<name> in this order; it returns from the first strategy whose
\* 200 answer is usable and contacts no later strategy.  A 200 of /tool/<name>,
\* /tool/<name>/ or /tools/<name> is usable when its body is JSON, of any
\* kind, and the parsed body is returned.  A 200 of /messages is usable when
\* its body is a JSON object with a "result" member, and that member is
\* returned, or a JSON object, string or array that holds neither "result" nor
\* "error" (as a key, a part of the string, an element), and the parsed body
\* is returned; null, a number, a boolean, a string or array that holds
\* "result", and a body that holds "error" without "result" are not usable.
\* A 200 that is not usable is passed over like a non-200; when no strategy
\* gives a usable 200, call_tool raises "All endpoint strategies failed" and
\* returns nothing.
C24_FirstUsable200Wins ==
    (client.pc # "idle" /\ client.tool_name \in available_tools) =>
        LET n == Len(client.answers) IN
        /\ InStrategyOrder
        /\ \A j \in 1..n : Usable(j, client.answers[j]) =>
              /\ j = n
              /\ Len(client.contacted) = n
              /\ client.pc = "done"
              /\ client.outcome = Return(ReturnedFrom(j, client.answers[j]))
        /\ (n >= 1 /\ ~Usable(n, client.answers[n])) =>
              IF n < 4
              THEN client.pc # "done" /\ Len(client.contacted) = n + 1
              ELSE client.pc = "done" /\ client.outcome = AllFailed
        /\ client.pc = "done" <=> (n >= 1 /\ (n = 4 \/ Usable(n, client.answers[n])))

\* C24 as stated: the body of the first strategy that answers 200 is returned
\* and no later strategy is contacted.
C24_AsStated ==
    (client.pc # "idle" /\ client.tool_name \in available_tools) =>
        \A j \in 1..Len(client.answers) : Answers200(client.answers[j]) =>
            /\ Len(client.contacted) = j
            /\ client.outcome = Return(client.answers[j].body)

\* Strategy 1 answered 200 with a body that is no JSON, /messages answered
\* 200 with the JSON text null, and the first alternative endpoint gave the
\* result.
C24_Witness ==
    /\ client.pc = "done"
    /\ Len(client.contacted) = 3
    /\ Answers200(client.answers[1])
    /\ client.answers[1].body = NotJson
    /\ Answers200(client.answers[2])
    /\ client.answers[2].body = [NoneType |-> "None"]
    /\ client.outcome = Return([dict |-> [status_code |-> [int |-> 200]]])

\* /messages answered the call with 200 and a body holding "error" and no
\* "result".
McpErrorAnswered ==
    /\ client.tool_name \in available_tools
    /\ Len(client.answers) >= 2
    /\ Answers200(client.answers[2])
    /\ type(client.answers[2].body) = "dict"
    /\ "error" \in DOMAIN client.answers[2].body.dict
    /\ "result" \notin DOMAIN client.answers[2].body.dict

\* C25: when /messages answers 200 with an "error" field and no "result"
\* field, the MCP error does not reach the caller: the client goes on to the
\* alternative endpoints, and the call ends either returning the 200 body of
\* an alternative endpoint or raising "All endpoint strategies failed".
C25_McpErrorNotPropagated ==
    McpErrorAnswered =>
        /\ Len(client.contacted) >= 3
        /\ client.contacted[3].url = <<"/tool/", client.tool_name, "/">>
        /\ client.pc \in {"alternative", "done"}
        /\ client.pc = "done" =>
              \/ client.outcome = AllFailed
              \/ \E j \in 3..Len(client.answers) :
                    /\ Answers200(client.answers[j])
                    /\ client.outcome = Return(client.answers[j].body)

\* After the MCP error both alternative endpoints failed: the caller gets the
\* generic exception.
C25_Witness ==
    /\ McpErrorAnswered
    /\ client.pc = "done"
    /\ Len(client.answers) = 4
    /\ client.outcome = AllFailed

\* After the MCP error the second alternative endpoint gave the result.
C25_AlternativeReturned ==
    /\ McpErrorAnswered
    /\ client.pc = "done"
    /\ Len(client.answers) = 4
    /\ client.outcome.how = "return"

\* The dict d shows the access token t: as the str token_starts_with of
\* token_info, or as a word of a header value.
Discloses(d, t) ==
    IF "token_starts_with" \in DOMAIN d
    THEN d.token_starts_with = t
    ELSE \E k \in DOMAIN d : \E j \in 1..Len(d[k]) : d[k][j] = t

\* The request-describing fields of the envelope e returned while the access
\* token was t: request_headers of the envelope and of each entry of results,
\* and token_info.
RequestDescribing(e) ==
    (IF "request_headers" \in DOMAIN e THEN {e.request_headers} ELSE {})
    \cup (IF "token_info" \in DOMAIN e THEN {e.token_info} ELSE {})
    \cup (IF "results" \in DOMAIN e
          THEN {e.results[j].request_headers :
                  j \in {j \in 1..Len(e.results) : "request_headers" \in DOMAIN e.results[j]}}
          ELSE {})

\* The envelopes async_submit_medical_request and async_submit_medical_alt
\* have returned after a token was obtained.
MedicalReturned(r) ==
    /\ route[r] \in {"submit_medical", "submit_medical_alt"}
    /\ medOp[r].pc = "done"
    /\ Truthy(medOp[r].access_token)

\* C26 as stated: no returned envelope discloses the full access token in its
\* request-describing fields, whatever the length of the token: Authorization
\* in request_headers is masked and token_info does not hold the complete
\* token.
C26_AsStated ==
    \A r \in Reqs : MedicalReturned(r) =>
        \A d \in RequestDescribing(medOp[r].result) :
            /\ ~Discloses(d, medOp[r].access_token)
            /\ "Authorization" \in DOMAIN d =>
                  d["Authorization"] \in {<<"***">>, <<"***REDACTED***">>}

\* A token of at most ten characters is returned whole in token_info.
C26_Witness ==
    \E r \in Reqs :
        /\ MedicalReturned(r)
        /\ route[r] = "submit_medical_alt"
        /\ Len(medOp[r].access_token) <= 10
        /\ medOp[r].result.token_info.token_starts_with = medOp[r].access_token
        /\ reply[r] = Ok(medOp[r].result)

\* What does hold: request_headers never shows the Authorization value, and a
\* token of more than ten characters is cut to its first ten in token_info.
C26_MaskedOtherwise ==
    \A r \in Reqs : MedicalReturned(r) =>
        /\ \A d \in RequestDescribing(medOp[r].result) :
              "Authorization" \in DOMAIN d =>
                  d["Authorization"] \in {<<"***">>, <<"***REDACTED***">>}
        /\ (route[r] = "submit_medical_alt" /\ Len(medOp[r].access_token) > 10) =>
              /\ medOp[r].result.token_info.token_starts_with # medOp[r].access_token
              /\ Len(medOp[r].result.token_info.token_starts_with) = 13

\* C27: whatever the candidates' outcomes (200, non-200, transport exception)
\* and on token failure, async_submit_medical_request ends by returning an
\* envelope that holds success and status_code: the call never raises, never
\* returns None after the loop, and has returned once the last candidate was
\* tried.
C27_AlwaysAnEnvelope ==
    \A r \in Reqs : InSubmitMedical(r) =>
        /\ medOp[r].pc \in {"token", "loop", "done"}
        /\ (answer[r].token # NoAnswer /\ ~Truthy(medOp[r].access_token)) => medOp[r].pc = "done"
        /\ Len(MedicalPosts(r)) = NumCandidates => medOp[r].pc = "done"
        /\ medOp[r].pc = "done" =>
              /\ medOp[r].result # NoneDict
              /\ {"success", "status_code"} \subseteq DOMAIN medOp[r].result
              /\ medOp[r].result.success \in BOOLEAN
              /\ medOp[r].result.status_code \in MedicalStatuses \cup {500}
              /\ route[r] = "submit_medical" => reply[r] = Ok(medOp[r].result)

\* Three candidates raised, the fourth as well: the envelope of the except
\* clause is returned.
C27_Witness ==
    \E r \in Reqs :
        /\ route[r] = "submit_medical"
        /\ Len(MedicalPosts(r)) = NumCandidates
        /\ answer[r].medical = Raised
        /\ medOp[r].pc = "done"
        /\ DOMAIN medOp[r].result
              = {"success", "status_code", "error", "request_id", "auth_attempt",
                 "all_attempts_failed"}
        /\ reply[r].http_status = 200

\* C29: within one call of async_submit_medical_request the body is built
\* once: every candidate POST carries the same body, with the same requestID,
\* whatever the time between the attempts; the headers differ from one attempt
\* to the next; and request_id of the returned envelope is the requestID that
\* was sent.
C29_PayloadBuiltOnce ==
    \A r \in Reqs : (InSubmitMedical(r) /\ MedicalPosts(r) # <<>>) =>
        LET m == MedicalPosts(r) IN
        /\ \A j \in 1..Len(m) :
              /\ m[j].json = m[1].json
              /\ m[j].json = [transform_to_medical_format(person[r], 0)
                                 EXCEPT !.requestID = m[1].json.requestID]
              /\ \A k \in 1..Len(m) : k # j => m[k].headers # m[j].headers
        /\ medOp[r].pc = "done" =>
              /\ medOp[r].result # NoneDict
              /\ medOp[r].result.request_id = m[1].json.requestID

\* Time has passed since the body was built, far enough for a new identifier,
\* and the call has returned after its fourth candidate.
C29_Witness ==
    \E r \in Reqs :
        /\ InSubmitMedical(r)
        /\ Len(MedicalPosts(r)) = NumCandidates
        /\ medOp[r].pc = "done"
        /\ generate_request_id(clock) # MedicalPosts(r)[1].json.requestID
        /\ medOp[r].result.request_id = MedicalPosts(r)[NumCandidates].json.requestID

\* The envelopes async_get_token, async_mcid_search and
\* async_submit_medical_request have returned for r, each with the upstream
\* answer it was built from (NoAnswer for the medical envelope of a token
\* failure).
ReturnedEnvelopes(r) ==
    IF route[r] \notin RouterRoutes THEN {}
    ELSE (IF tokOp[r].pc = "done" THEN {<<tokOp[r].result, answer[r].top_token>>} ELSE {})
         \cup (IF mcidOp[r].pc = "done" THEN {<<mcidOp[r].result, answer[r].mcid>>} ELSE {})
         \cup (IF medOp[r].pc = "done" /\ medOp[r].result # NoneDict
               THEN {<<medOp[r].result,
                       IF Truthy(medOp[r].access_token) THEN answer[r].medical ELSE NoAnswer>>}
               ELSE {})

\* C28: in every envelope returned by async_get_token, async_mcid_search and
\* async_submit_medical_request, success is true exactly when status_code is
\* 200; the envelope of a token failure and the envelope of a transport
\* failure have success false and status_code 500.
C28_SuccessIffStatus200 ==
    \A r \in Reqs : \A p \in ReturnedEnvelopes(r) :
        LET e == p[1]
            a == p[2]
        IN  /\ e.success <=> (e.status_code = 200)
            /\ (a = NoAnswer \/ a = Raised) =>
                  /\ ~e.success
                  /\ e.status_code = 500
                  /\ "error" \in DOMAIN e
            /\ (a # NoAnswer /\ a # Raised) => e.status_code = a.status_code

\* test_connection has made the three calls: the token endpoint answered 201,
\* the MCID endpoint raised, and the medical submission got no token.
C28_Witness ==
    \E r \in Reqs :
        /\ route[r] = "test_connection"
        /\ Cardinality(ReturnedEnvelopes(r)) = 3
        /\ tokOp[r].result.status_code = 201
        /\ ~tokOp[r].result.success
        /\ answer[r].mcid = Raised
        /\ medOp[r].result = token_not_found

\* C30: in the envelope async_submit_medical_alt returns after its loop,
\* total_attempts is the length of the candidate list, 8, however many
\* candidates were tried; results never has more entries than that, and has
\* exactly that many when no candidate before the last was answered 200.
C30_ResultsWithinTotalAttempts ==
    \A r \in Reqs : (InAltLoop(r) /\ medOp[r].pc = "done") =>
        LET e == medOp[r].result
            m == MedicalPosts(r)
        IN  /\ e.total_attempts = 8
            /\ e.total_attempts = Len(alt_auth_attempts(medOp[r].access_token))
            /\ Len(e.results) <= e.total_attempts
            /\ Len(e.results) = Len(m)
            /\ (Len(e.results) = e.total_attempts)
                  <=> ~(\E j \in 1..Len(m) : j < e.total_attempts /\ m[j].ok)

\* The third candidate got the 200: three entries, total_attempts 8.
C30_Witness ==
    \E r \in Reqs :
        /\ InAltLoop(r)
        /\ medOp[r].pc = "done"
        /\ medOp[r].result.success
        /\ Len(medOp[r].result.results) = 3
        /\ medOp[r].result.total_attempts = 8
        /\ reply[r] = Ok(medOp[r].result)

\* The last candidate got the 200: eight entries.
C30_LastCandidate200 ==
    \E r \in Reqs :
        /\ InAltLoop(r)
        /\ medOp[r].pc = "done"
        /\ medOp[r].result.success
        /\ Len(medOp[r].result.results) = 8

====
